---- MODULE Spec2Model ----
(***************************************************************************)
(* Model of the streaming tool-call orchestration of the chatbot:          *)
(*   app/services/openai_service.py  OpenAIService.stream_chat_completion  *)
(*                                   OpenAIService._execute_tool_call      *)
(*   app/services/mem0_service.py    Mem0Service                           *)
(* One turn of stream_chat_completion is a state machine over the chunks   *)
(* the provider delivers; the provider and the Mem0 client are the         *)
(* environment and behave nondeterministically.                            *)
(***************************************************************************)
EXTENDS Integers, Sequences, FiniteSets, TLC

VARIABLES
    pc,                      \* position of the generator in stream_chat_completion
    user_id,                 \* the turn's user_id argument
    client_present,          \* Mem0Service.client is not None
    full_messages,           \* the conversation context sent to the provider
    tool_calls_to_execute,   \* the list of accumulated tool-call slots
    exec_pos,                \* position of the execution loop in tool_calls_to_execute
    emitted,                 \* the StreamChunks yielded so far
    streams,                 \* the completion_kwargs of every provider stream opened
    primary_read,            \* content deltas of the primary chunks read (None kept)
    followup_read,           \* follow-up chunks read: content, and whether the
                             \* chunk carried tool calls or finish_reason tool_calls
    executions,              \* per _execute_tool_call: slot, result, calls it made
    provider_failed,         \* the point at which the provider raised, or "no"
    finish_seen,             \* the finish_reason that ended the primary loop, or None
    frag_log,                \* fragments ingested so far (assembler specification)
    cancelled,               \* the client disconnected and the turn was abandoned
    memories,                \* MemoryService.memories: user_id -> conversations
    requests,                \* the /chat requests: one record per request
    store_log,               \* the set of Mem0Service calls made for /chat requests
    mem0_store,              \* the memories the Memory Store holds: user_id -> ids
    mem0_cache,              \* MemoryService.mem0_cache: the users that have an
                             \* entry -> the cached list
    written_since,           \* user_id -> a MemoryService write for the user
                             \* completed after the user's cache entry was made
    last_response            \* what the last service or route call returned

\* the Memory Store, the cache of MemoryService and the last call's result
svcVars == <<mem0_store, mem0_cache, written_since, last_response>>

\* the state of the /chat route and of MemoryService
chatVars == <<memories, requests, store_log, svcVars>>

vars == <<pc, user_id, client_present, full_messages, tool_calls_to_execute,
          exec_pos, emitted, streams, primary_read, followup_read, executions,
          provider_failed, finish_seen, frag_log, cancelled, chatVars>>

(***************************************************************************)
(* Bounds of the model.                                                    *)
(***************************************************************************)
MaxChunks == 2          \* chunks read from one provider stream
MaxIndex == 1           \* highest tool-call index the provider uses
MaxArgLen == 2          \* characters of accumulated argument text
MaxLog == 2             \* fragments ingested in the assembler specification

(***************************************************************************)
(* Values.                                                                 *)
(***************************************************************************)
None == "None"                       \* Python's None for ids, names, contents
NoneArgs == <<"None">>               \* Python's None for an arguments fragment
Users == {"u1"}                      \* the user of the turn
Contents == {None, "", "a"}          \* delta.content: absent, empty, text
Chars == {"{", "}"}                  \* alphabet of argument text
FinishReasons == {None, "stop", "length", "tool_calls"}
KnownFunctions == {"add_memory", "search_memories", "get_all_memories",
                   "update_memory", "delete_memory"}
FunctionNames == KnownFunctions \cup {"other_fn", None}

\* argument texts of at most n characters
RECURSIVE TextsUpTo(_)
TextsUpTo(n) ==
    IF n = 0 THEN {<<>>}
    ELSE LET shorter == TextsUpTo(n - 1)
         IN shorter \cup {Append(t, c) : t \in {s \in shorter : Len(s) = n - 1}, c \in Chars}

(***************************************************************************)
(* Fragment Assembler: the tool-call branch of the primary loop.           *)
(***************************************************************************)
NoIndex == 0 - 1                     \* tool_call_delta.index is None

\* A tool_call_delta.  has_function = FALSE is a delta without a function object.
Fragment(i, id, fn, nm, args) ==
    [index |-> i, id |-> id, type |-> "function", has_function |-> fn,
     name |-> nm, arguments |-> args]

\* An entry of tool_calls_to_execute; present = FALSE is the None placeholder.
EmptySlot == [present |-> FALSE, id |-> None, type |-> None, name |-> None,
              arguments |-> <<>>]

\* `x or ""` on an arguments fragment: None and "" both give "".
OrEmpty(a) == IF a = NoneArgs THEN <<>> ELSE a

\* tool_calls_to_execute.extend([None] * (index + 1 - len(tool_calls_to_execute)))
ExtendSlotsOneMore(slots, i) ==
    IF i >= Len(slots)
    THEN slots \o [k \in 1..(i + 2 - Len(slots)) |-> EmptySlot]
    ELSE slots
ExtendSlots(slots, i) ==
    IF i >= Len(slots)
    THEN slots \o [k \in 1..(i + 1 - Len(slots)) |-> EmptySlot]
    ELSE slots

\* The slot made from the first fragment of an index.
NewSlot(f) ==
    [present |-> TRUE, id |-> f.id, type |-> f.type, name |-> f.name,
     arguments |-> OrEmpty(f.arguments)]

\* A later fragment of an index: arguments are appended, nothing else is read.
AppendArgumentsOverwrite(slot, f) == [slot EXCEPT !.arguments = OrEmpty(f.arguments)]
AppendArguments(slot, f) == [slot EXCEPT !.arguments = @ \o OrEmpty(f.arguments)]

\* The fragment makes the loop body raise (attribute access on a missing function).
FragmentRaises(f) == f.index # NoIndex /\ ~f.has_function

\* One iteration of `for tool_call_delta in delta.tool_calls` that does not raise.
IngestFragment(slots, f) ==
    IF f.index = NoIndex THEN slots
    ELSE LET ext == ExtendSlots(slots, f.index)
             k == f.index + 1
         IN IF ~ext[k].present
            THEN [ext EXCEPT ![k] = NewSlot(f)]
            ELSE [ext EXCEPT ![k] = AppendArguments(ext[k], f)]

\* The whole loop over delta.tool_calls: the slots reached and whether it raised.
RECURSIVE IngestAll(_, _)
IngestAll(slots, frags) ==
    IF frags = <<>> THEN [slots |-> slots, raised |-> FALSE]
    ELSE IF FragmentRaises(Head(frags))
         THEN [slots |-> ExtendSlots(slots, Head(frags).index), raised |-> TRUE]
         ELSE IngestAll(IngestFragment(slots, Head(frags)), Tail(frags))

\* Characters a list of fragments adds to the slot of index i at most.
RECURSIVE AddedLen(_, _)
AddedLen(frags, i) ==
    IF frags = <<>> THEN 0
    ELSE (IF Head(frags).index = i THEN Len(OrEmpty(Head(frags).arguments)) ELSE 0)
         + AddedLen(Tail(frags), i)

SlotLen(slots, i) == IF i + 1 <= Len(slots) THEN Len(slots[i + 1].arguments) ELSE 0

\* The bound on accumulated argument text.
WithinArgBound(slots, frags) ==
    \A i \in 0..(MaxIndex + 1) : SlotLen(slots, i) + AddedLen(frags, i) <= MaxArgLen

(***************************************************************************)
(* Mem0Service: every method reports what it returns and the MemoryClient  *)
(* operation it attempted.  `outcome` is what the client does when called: *)
(* "ok" (a result without an error key), "error_marker" (a result carrying *)
(* an error key), "empty" (an empty list) or "raise".                      *)
(***************************************************************************)
ErrorResults == {"error_unavailable", "error_exception", "error_in_store_result",
                 "error_unknown_function", "error_arguments", "error_no_attribute"}

\* `"error" in result`
HasErrorKey(result) == result \in ErrorResults

WriteOutcomes == {"ok", "error_marker", "raise"}
SearchOutcomes == {"ok", "empty", "raise"}

NoCall == <<>>
ClientCall(op, uid, outcome) == <<[op |-> op, user_id |-> uid, outcome |-> outcome]>>

\* Mem0Service.add_memory
Mem0AddMemoryRetries(present, uid, outcome) ==
    IF ~present THEN [result |-> "error_unavailable", client |-> NoCall]
    ELSE IF outcome = "raise"
    THEN [result |-> "error_exception",
          client |-> ClientCall("add", uid, outcome) \o ClientCall("add", uid, outcome)]
    ELSE [result |-> IF outcome = "error_marker"
                     THEN "error_in_store_result" ELSE "store_result",
          client |-> ClientCall("add", uid, outcome)]
Mem0AddMemory(present, uid, outcome) ==
    IF ~present THEN [result |-> "error_unavailable", client |-> NoCall]
    ELSE [result |-> CASE outcome = "raise" -> "error_exception"
                       [] outcome = "error_marker" -> "error_in_store_result"
                       [] OTHER -> "store_result",
          client |-> ClientCall("add", uid, outcome)]

\* Mem0Service.search_memories
Mem0SearchMemoriesFailsAbsent(present, uid, outcome) ==
    IF ~present THEN [result |-> "error_unavailable", client |-> NoCall]
    ELSE [result |-> CASE outcome = "raise" -> "no_memories"
                       [] outcome = "empty" -> "no_memories"
                       [] OTHER -> "memories",
          client |-> ClientCall("search", uid, outcome)]
Mem0SearchMemories(present, uid, outcome) ==
    IF ~present THEN [result |-> "no_memories", client |-> NoCall]
    ELSE [result |-> CASE outcome = "raise" -> "no_memories"
                       [] outcome = "empty" -> "no_memories"
                       [] OTHER -> "memories",
          client |-> ClientCall("search", uid, outcome)]

\* Mem0Service.get_all_memories: a search with the empty query
Mem0GetAllMemories(present, uid, outcome) ==
    IF ~present THEN [result |-> "no_memories", client |-> NoCall]
    ELSE [result |-> CASE outcome = "raise" -> "no_memories"
                       [] outcome = "empty" -> "no_memories"
                       [] OTHER -> "memories",
          client |-> ClientCall("search", uid, outcome)]

\* Mem0Service.delete_memory
Mem0DeleteMemory(present, uid, outcome) ==
    IF ~present THEN [result |-> "error_unavailable", client |-> NoCall]
    ELSE [result |-> CASE outcome = "raise" -> "error_exception"
                       [] outcome = "error_marker" -> "error_in_store_result"
                       [] OTHER -> "store_result",
          client |-> ClientCall("delete", uid, outcome)]

\* Mem0Service.delete_all_memories: lists the memories of the user and
\* deletes each one that has an id, counting the deletions whose result
\* has no error key; the listing holds at most one memory here
Mem0DeleteAllMemories(present, uid, listing, deletion) ==
    IF ~present THEN [result |-> "error_unavailable", client |-> NoCall]
    ELSE LET all == Mem0GetAllMemories(present, uid, listing)
         IN IF all.result = "no_memories"
            THEN [result |-> "deleted_0_of_0", client |-> all.client]
            ELSE [result |-> CASE deletion = "raise" -> "error_exception"
                               [] deletion = "error_marker" -> "deleted_0_of_1"
                               [] OTHER -> "deleted_1_of_1",
                  client |-> all.client \o ClientCall("delete", uid, deletion)]

\* The methods Mem0Service defines; update_memory is not among them.
Mem0Methods == {"add_memory", "search_memories", "get_all_memories",
                "delete_memory", "delete_all_memories", "get_memory_stats"}

(***************************************************************************)
(* Tool Executor: OpenAIService._execute_tool_call.                        *)
(***************************************************************************)
\* json.loads(arguments) gives an object on which .get works
ParsesAnyText(text) == TRUE
ParsesToObject(text) == text = <<"{", "}">>

ToolResult(slot, result, success) ==
    [tool_call_id |-> slot.id, function_name |-> slot.name,
     result |-> result, success |-> success]

Mem0Call(method, uid) == <<[method |-> method, user_id |-> uid]>>

\* The `else` branch: the function name is none of the five.
UnknownFunctionSucceeds(slot) ==
    [tool_result |-> ToolResult(slot, "no_memories", TRUE),
     mem0 |-> NoCall, client |-> NoCall]
UnknownFunction(slot) ==
    [tool_result |-> ToolResult(slot, "error_unknown_function", FALSE),
     mem0 |-> NoCall, client |-> NoCall]

\* What one execution returns and which calls it made.
ExecuteToolCall(slot, uid, present, outcome) ==
    IF ~ParsesToObject(slot.arguments)
    THEN [tool_result |-> ToolResult(slot, "error_arguments", FALSE),
          mem0 |-> NoCall, client |-> NoCall]
    ELSE CASE slot.name = "add_memory" ->
                LET r == Mem0AddMemory(present, uid, outcome)
                IN [tool_result |-> ToolResult(slot, r.result, ~HasErrorKey(r.result)),
                    mem0 |-> Mem0Call("add_memory", uid), client |-> r.client]
           [] slot.name = "search_memories" ->
                LET r == Mem0SearchMemories(present, uid, outcome)
                IN [tool_result |-> ToolResult(slot, r.result, TRUE),
                    mem0 |-> Mem0Call("search_memories", uid), client |-> r.client]
           [] slot.name = "get_all_memories" ->
                LET r == Mem0GetAllMemories(present, uid, outcome)
                IN [tool_result |-> ToolResult(slot, r.result, TRUE),
                    mem0 |-> Mem0Call("get_all_memories", uid), client |-> r.client]
           [] slot.name = "update_memory" ->
                IF "update_memory" \in Mem0Methods
                THEN [tool_result |-> ToolResult(slot, "store_result", TRUE),
                      mem0 |-> Mem0Call("update_memory", uid), client |-> NoCall]
                ELSE [tool_result |-> ToolResult(slot, "error_no_attribute", FALSE),
                      mem0 |-> NoCall, client |-> NoCall]
           [] slot.name = "delete_memory" ->
                LET r == Mem0DeleteMemory(present, uid, outcome)
                IN [tool_result |-> ToolResult(slot, r.result, ~HasErrorKey(r.result)),
                    mem0 |-> Mem0Call("delete_memory", uid), client |-> r.client]
           [] OTHER -> UnknownFunction(slot)

\* The client outcomes that can follow a slot's function name.
OutcomesFor(slot) ==
    IF slot.name \in {"search_memories", "get_all_memories"}
    THEN SearchOutcomes ELSE WriteOutcomes

(***************************************************************************)
(* Provider chunks and messages.                                           *)
(***************************************************************************)
use_tools == TRUE                    \* the default, which the /chat route uses

ErrorText == "Sorry, I encountered an error"
DoneChunk == [content |-> "", done |-> TRUE]
ErrorChunk == [content |-> ErrorText, done |-> TRUE]
ContentChunk(c) == [content |-> c, done |-> FALSE]

\* json.dumps(tool_result["result"]): the text of each result
JsonDumps(result) ==
    CASE result = "no_memories" -> "[]"
      [] result = "memories" -> "[{id, memory}]"
      [] result = "store_result" -> "{results}"
      [] result = "error_in_store_result" -> "{error: store}"
      [] result = "error_unavailable" -> "{error: Memory service not available}"
      [] result = "error_exception" -> "{error: exception}"
      [] result = "error_unknown_function" -> "{error: Unknown function}"
      [] result = "error_arguments" -> "{error: json}"
      [] OTHER -> "{error: no attribute update_memory}"

Message(role, content, calls, id) ==
    [role |-> role, content |-> content, tool_calls |-> calls, tool_call_id |-> id]

SystemMessage == Message("system", "system_prompt", <<>>, None)
UserMessage == Message("user", "user_message", <<>>, None)

\* the entry of assistant_message["tool_calls"] made from a slot
ToolCallEntry(slot) ==
    [id |-> slot.id, type |-> slot.type,
     function |-> [name |-> slot.name, arguments |-> slot.arguments]]

\* `for tool_call_data in tool_calls_to_execute: if tool_call_data: append`
RECURSIVE PresentEntries(_)
PresentEntries(slots) ==
    IF slots = <<>> THEN <<>>
    ELSE (IF Head(slots).present THEN <<ToolCallEntry(Head(slots))>> ELSE <<>>)
         \o PresentEntries(Tail(slots))

AssistantMessage(slots) == Message("assistant", None, PresentEntries(slots), None)
ToolMessageFirstId(slot, tool_result) ==
    Message("tool", JsonDumps(tool_result.result), <<>>, "call_0")
ToolMessage(slot, tool_result) ==
    Message("tool", JsonDumps(tool_result.result), <<>>, slot.id)

\* position of the first present slot at or after pos, Len(slots) + 1 if none
NextPresentFromEnd(slots, pos) ==
    IF pos > Len(slots) THEN Len(slots) + 1 ELSE Len(slots)
RECURSIVE NextPresent(_, _)
NextPresent(slots, pos) ==
    IF pos > Len(slots) THEN Len(slots) + 1
    ELSE IF slots[pos].present THEN pos
    ELSE NextPresent(slots, pos + 1)

\* completion_kwargs of a provider call
PrimaryKwargs(msgs) ==
    [tools |-> IF use_tools THEN "memory_tools" ELSE "unset",
     tool_choice |-> IF use_tools THEN "auto" ELSE "unset", messages |-> msgs]
FollowUpKwargsKeepTools(msgs) ==
    [tools |-> "memory_tools", tool_choice |-> "auto", messages |-> msgs]
FollowUpKwargs(msgs) == [tools |-> None, tool_choice |-> None, messages |-> msgs]

\* Fragments the provider sends in a turn.  A header fragment carries the id
\* and the name of its call, a continuation fragment carries neither; either
\* kind may be the first fragment the provider sends for an index.  Index 0
\* names every function with complete arguments; partial and absent
\* arguments come with search_memories, with an unknown function and with
\* continuation fragments.
TurnArgs == {NoneArgs, <<"{">>, <<"{", "}">>}
CallId(i) == IF i = 0 THEN "call_0" ELSE "call_n"
HeaderNames(i) ==
    IF i = 0 THEN FunctionNames \ {None} ELSE {"search_memories", "other_fn"}
HeaderFragments ==
    {Fragment(i, CallId(i), TRUE, nm, <<"{", "}">>) :
        i \in {0}, nm \in HeaderNames(0)}
    \cup {Fragment(i, CallId(i), TRUE, nm, <<"{", "}">>) :
        i \in 1..MaxIndex, nm \in HeaderNames(1)}
    \cup {Fragment(i, CallId(i), TRUE, "search_memories", a) :
        i \in 0..MaxIndex, a \in TurnArgs}
    \cup {Fragment(0, CallId(0), TRUE, "other_fn", <<"{">>)}
ContinuationFragments ==
    {Fragment(i, None, TRUE, None, a) : i \in 0..MaxIndex, a \in TurnArgs}
MalformedFragments ==
    {Fragment(i, None, FALSE, None, NoneArgs) : i \in 0..MaxIndex}
    \cup {Fragment(NoIndex, None, TRUE, None, NoneArgs)}
TurnFragments == HeaderFragments \cup ContinuationFragments \cup MalformedFragments

Chunk(ch, c, tc, fr) ==
    [has_choice |-> ch, content |-> c, tool_calls |-> tc, finish_reason |-> fr]

\* Chunks of the primary stream: content chunks, tool-call chunks, chunks that
\* carry both, and a chunk without choices.
PrimaryChunks ==
    {Chunk(TRUE, c, <<>>, fr) : c \in Contents, fr \in FinishReasons}
    \cup {Chunk(TRUE, None, <<f>>, fr) : f \in TurnFragments, fr \in FinishReasons}
    \cup {Chunk(TRUE, "a", <<f>>, fr) :
            f \in MalformedFragments
                  \cup {Fragment(0, "call_0", TRUE, "search_memories", <<"{", "}">>)},
            fr \in FinishReasons}
    \cup {Chunk(FALSE, None, <<>>, None)}

\* Chunks of the follow-up stream: content chunks with and without a finish
\* reason, a chunk without content that carries a tool call and finish_reason
\* tool_calls, and a chunk without choices.
FollowUpChunks ==
    {Chunk(TRUE, "a", <<>>, fr) : fr \in {None, "stop"}}
    \cup {Chunk(TRUE, None, tc, "tool_calls") :
            tc \in {<<Fragment(0, "call_0", TRUE, "add_memory", <<"{", "}">>)>>}}
    \cup {Chunk(FALSE, None, <<>>, None)}

\* MemoryService.memories after construction: no user has a history.
ChatUsers == {"u1", "u2"}
NoMemories == [u \in ChatUsers |-> <<>>]
EmptyStore == [u \in ChatUsers |-> {}]              \* no memory stored
NoCache == [u \in {} |-> {}]                        \* mem0_cache = {}
NotWritten == [u \in ChatUsers |-> FALSE]
NoResponse == [op |-> "none"]                       \* no call made yet

(***************************************************************************)
(* One turn of OpenAIService.stream_chat_completion.                       *)
(***************************************************************************)
Init ==
    /\ pc = "start"
    /\ user_id \in Users
    /\ client_present \in BOOLEAN
    /\ full_messages = <<>>
    /\ tool_calls_to_execute = <<>>
    /\ exec_pos = 0
    /\ emitted = <<>>
    /\ streams = <<>>
    /\ primary_read = <<>>
    /\ followup_read = <<>>
    /\ executions = <<>>
    /\ provider_failed = "no"
    /\ finish_seen = None
    /\ frag_log = <<>>
    /\ cancelled = FALSE
    /\ memories = NoMemories
    /\ requests = <<>>
    /\ store_log = {}
    /\ mem0_store = EmptyStore
    /\ mem0_cache = NoCache
    /\ written_since = NotWritten
    /\ last_response = NoResponse

\* `if delta.content is not None: yield StreamChunk(content=content, done=False)`
EmitContentIfTruthy(sofar, content) ==
    IF content # None /\ content # "" THEN Append(sofar, ContentChunk(content)) ELSE sofar
EmitContent(sofar, content) ==
    IF content # None THEN Append(sofar, ContentChunk(content)) ELSE sofar

\* `if choice.finish_reason == "tool_calls" and tool_calls_to_execute`
EntersToolPhaseOnAnyFinish(finish_reason, slots) == slots # <<>>
EntersToolPhase(finish_reason, slots) == finish_reason = "tool_calls" /\ slots # <<>>

\* what followup_read keeps of a follow-up chunk
FollowUpRecord(chunk) ==
    [content |-> chunk.content,
     tool_signal |-> chunk.tool_calls # <<>> \/ chunk.finish_reason = "tool_calls"]

\* `except Exception`: one error chunk with done=True ends the generator.
FailNotTerminal(point, sofar) ==
    /\ emitted' = Append(sofar, [content |-> ErrorText, done |-> FALSE])
    /\ provider_failed' = point
    /\ pc' = "done"
Fail(point, sofar) ==
    /\ emitted' = Append(sofar, ErrorChunk)
    /\ provider_failed' = point
    /\ pc' = "done"

\* full_messages is built and the primary stream is opened.
OpenPrimary ==
    /\ pc = "start"
    /\ full_messages' = <<SystemMessage, UserMessage>>
    /\ \/ /\ streams' = Append(streams, PrimaryKwargs(full_messages'))
          /\ pc' = "primary"
          /\ UNCHANGED <<emitted, provider_failed>>
       \/ /\ Fail("open_primary", emitted)
          /\ UNCHANGED streams
    /\ UNCHANGED <<user_id, client_present, tool_calls_to_execute, exec_pos,
                   primary_read, followup_read, executions, finish_seen, frag_log>>
    /\ UNCHANGED <<cancelled, chatVars>>

\* `async for chunk in stream` raises while waiting for the next chunk.
PrimaryReadFails ==
    /\ pc = "primary"
    /\ Fail("primary_read", emitted)
    /\ UNCHANGED <<user_id, client_present, full_messages, tool_calls_to_execute,
                   exec_pos, streams, primary_read, followup_read, executions, finish_seen, frag_log>>
    /\ UNCHANGED <<cancelled, chatVars>>

\* The primary stream is exhausted before any chunk carried a finish_reason.
PrimaryStreamEnds ==
    /\ pc = "primary"
    /\ pc' = "done"
    /\ UNCHANGED <<user_id, client_present, full_messages, tool_calls_to_execute,
                   exec_pos, emitted, streams, primary_read, followup_read,
                   executions, provider_failed,
                   finish_seen, frag_log>>
    /\ UNCHANGED <<cancelled, chatVars>>

\* The body of the primary loop for one chunk.
HandlePrimaryChunk(chunk) ==
    /\ pc = "primary"
    /\ Len(primary_read) < MaxChunks
    /\ WithinArgBound(tool_calls_to_execute, chunk.tool_calls)
    /\ primary_read' = Append(primary_read, chunk.content)
    /\ IF ~chunk.has_choice
       THEN /\ Fail("primary_chunk", emitted)
            /\ UNCHANGED <<full_messages, tool_calls_to_execute, exec_pos, finish_seen>>
       ELSE LET sofar == EmitContent(emitted, chunk.content)
                ing == IngestAll(tool_calls_to_execute, chunk.tool_calls)
            IN /\ tool_calls_to_execute' = ing.slots
               /\ IF ing.raised
                  THEN /\ Fail("primary_fragment", sofar)
                       /\ UNCHANGED <<full_messages, exec_pos, finish_seen>>
                  ELSE IF chunk.finish_reason = None
                  THEN /\ emitted' = sofar
                       /\ UNCHANGED <<pc, provider_failed, full_messages, exec_pos,
                                      finish_seen>>
                  ELSE IF EntersToolPhase(chunk.finish_reason, ing.slots)
                  THEN /\ emitted' = sofar
                       /\ full_messages' =
                              Append(full_messages, AssistantMessage(ing.slots))
                       /\ exec_pos' = NextPresent(ing.slots, 1)
                       /\ finish_seen' = chunk.finish_reason
                       /\ pc' = "exec"
                       /\ UNCHANGED provider_failed
                  ELSE /\ emitted' = Append(sofar, DoneChunk)
                       /\ finish_seen' = chunk.finish_reason
                       /\ pc' = "done"
                       /\ UNCHANGED <<provider_failed, full_messages, exec_pos>>
    /\ UNCHANGED <<user_id, client_present, streams, followup_read, executions, frag_log>>
    /\ UNCHANGED <<cancelled, chatVars>>

\* One iteration of the execution loop: _execute_tool_call, then the tool message.
ExecuteNextTool(outcome) ==
    /\ pc = "exec"
    /\ exec_pos <= Len(tool_calls_to_execute)
    /\ LET slot == tool_calls_to_execute[exec_pos]
           ex == ExecuteToolCall(slot, user_id, client_present, outcome)
       IN /\ outcome \in OutcomesFor(slot)
          /\ executions' = Append(executions,
                 [index |-> exec_pos - 1, tool_result |-> ex.tool_result,
                  mem0 |-> ex.mem0, client |-> ex.client])
          /\ full_messages' = Append(full_messages, ToolMessage(slot, ex.tool_result))
    /\ exec_pos' = NextPresent(tool_calls_to_execute, exec_pos + 1)
    /\ UNCHANGED <<pc, user_id, client_present, tool_calls_to_execute, emitted,
                   streams, primary_read, followup_read, provider_failed,
                   finish_seen, frag_log>>
    /\ UNCHANGED <<cancelled, chatVars>>

\* The second completion call, made once every slot has been executed.
OpenFollowUp ==
    /\ pc = "exec"
    /\ exec_pos > Len(tool_calls_to_execute)
    /\ \/ /\ streams' = Append(streams, FollowUpKwargs(full_messages))
          /\ pc' = "followup"
          /\ UNCHANGED <<emitted, provider_failed>>
       \/ /\ Fail("open_followup", emitted)
          /\ UNCHANGED streams
    /\ UNCHANGED <<user_id, client_present, full_messages, tool_calls_to_execute,
                   exec_pos, primary_read, followup_read, executions, finish_seen, frag_log>>
    /\ UNCHANGED <<cancelled, chatVars>>

\* The body of the follow-up loop for one chunk: only content is read.
HandleFollowUpChunk(chunk) ==
    /\ pc = "followup"
    /\ Len(followup_read) < MaxChunks
    /\ followup_read' = Append(followup_read, FollowUpRecord(chunk))
    /\ IF ~chunk.has_choice
       THEN Fail("followup_chunk", emitted)
       ELSE /\ emitted' = EmitContent(emitted, chunk.content)
            /\ UNCHANGED <<pc, provider_failed>>
    /\ UNCHANGED <<user_id, client_present, full_messages, tool_calls_to_execute,
                   exec_pos, streams, primary_read, executions, finish_seen, frag_log>>
    /\ UNCHANGED <<cancelled, chatVars>>

\* `async for follow_up_chunk in follow_up_stream` raises.
FollowUpReadFails ==
    /\ pc = "followup"
    /\ Fail("followup_read", emitted)
    /\ UNCHANGED <<user_id, client_present, full_messages, tool_calls_to_execute,
                   exec_pos, streams, primary_read, followup_read, executions, finish_seen, frag_log>>
    /\ UNCHANGED <<cancelled, chatVars>>

\* The follow-up stream is exhausted: the final done chunk is yielded.
FollowUpStreamEndsNoBreak ==
    /\ pc = "followup"
    /\ emitted' = Append(emitted, DoneChunk)
    /\ pc' = "primary"
    /\ UNCHANGED <<user_id, client_present, full_messages, tool_calls_to_execute,
                   exec_pos, streams, primary_read, followup_read, executions, provider_failed, finish_seen, frag_log>>
    /\ UNCHANGED <<cancelled, chatVars>>
FollowUpStreamEnds ==
    /\ pc = "followup"
    /\ emitted' = Append(emitted, DoneChunk)
    /\ pc' = "done"
    /\ UNCHANGED <<user_id, client_present, full_messages, tool_calls_to_execute,
                   exec_pos, streams, primary_read, followup_read, executions, provider_failed, finish_seen, frag_log>>
    /\ UNCHANGED <<cancelled, chatVars>>

\* The generator stands at a suspension point: it waits for a chunk of one of
\* the streams, or it is suspended at the `yield` of a content chunk (the
\* chunk that carried finish_reason tool_calls included, before the first
\* tool is executed).  _execute_tool_call awaits coroutines that call the
\* synchronous MemoryClient, so the batch itself has no suspension point.
AtSuspensionPoint ==
    \/ pc \in {"primary", "followup"}
    \/ /\ pc = "exec"
       /\ executions = <<>>
       /\ primary_read # <<>>
       /\ primary_read[Len(primary_read)] # None

\* CancelledError and GeneratorExit are not subclasses of Exception:
\* `except Exception` does not handle them and the generator is left.
PcAfterCancelResumes(p) == p
PcAfterCancel(p) == "cancelled"

\* The client disconnects: the exception is thrown into the generator at the
\* suspension point where it stands.
Cancel ==
    /\ AtSuspensionPoint
    /\ ~cancelled
    /\ cancelled' = TRUE
    /\ pc' = PcAfterCancel(pc)
    /\ UNCHANGED <<user_id, client_present, full_messages, tool_calls_to_execute,
                   exec_pos, emitted, streams, primary_read, followup_read,
                   executions, provider_failed, finish_seen, frag_log, chatVars>>

Next ==
    \/ OpenPrimary
    \/ PrimaryReadFails
    \/ PrimaryStreamEnds
    \/ \E chunk \in PrimaryChunks : HandlePrimaryChunk(chunk)
    \/ \E outcome \in WriteOutcomes \cup SearchOutcomes : ExecuteNextTool(outcome)
    \/ OpenFollowUp
    \/ \E chunk \in FollowUpChunks : HandleFollowUpChunk(chunk)
    \/ FollowUpReadFails
    \/ FollowUpStreamEnds
    \/ Cancel

Spec == Init /\ [][Next]_vars

\* The generator is resumed whenever it can take a step: the event loop runs
\* it and the route keeps iterating until it ends.
SpecFair == Spec /\ WF_vars(Next)

(***************************************************************************)
(* The same turn when the Memory Store may fail to answer.  Mem0Service    *)
(* calls self.client.add / search / delete with no timeout around them and *)
(* _execute_tool_call awaits Mem0Service with none either: a call that     *)
(* does not return leaves the generator inside `await                      *)
(* self._execute_tool_call(...)`.                                          *)
(***************************************************************************)
\* the execution of the slot calls the Memory Store client
CallsStore(slot) == ExecuteToolCall(slot, user_id, client_present, "ok").client # NoCall

StoreCallNeverReturns ==
    /\ pc = "exec"
    /\ exec_pos <= Len(tool_calls_to_execute)
    /\ CallsStore(tool_calls_to_execute[exec_pos])
    /\ pc' = "store_call"
    /\ UNCHANGED <<user_id, client_present, full_messages, tool_calls_to_execute,
                   exec_pos, emitted, streams, primary_read, followup_read,
                   executions, provider_failed, finish_seen, frag_log>>
    /\ UNCHANGED <<cancelled, chatVars>>

NextHang ==
    \/ Next
    \/ StoreCallNeverReturns

SpecHang == Init /\ [][NextHang]_vars /\ WF_vars(NextHang)

(***************************************************************************)
(* The Fragment Assembler on its own: the tool-call branch of the primary  *)
(* loop applied to every bounded sequence of fragments, with the fragments *)
(* delivered kept in frag_log.  Here id and name are null or not           *)
(* independently of each other and of the position of the fragment.        *)
(***************************************************************************)
AssemblerArgs == {NoneArgs} \cup TextsUpTo(1)
AssemblerHeads ==
    {<<None, None>>, <<"call_0", "add_memory">>, <<"call_1", "search_memories">>,
     <<None, "add_memory">>, <<"call_0", None>>}
AssemblerFragments ==
    {Fragment(i, h[1], TRUE, h[2], a) :
        i \in 0..MaxIndex, h \in AssemblerHeads, a \in AssemblerArgs}
    \cup {Fragment(NoIndex, "call_0", TRUE, "add_memory", <<"{">>)}

InitAssembler ==
    /\ pc = "assembling"
    /\ user_id = "u1"
    /\ client_present = TRUE
    /\ full_messages = <<SystemMessage, UserMessage>>
    /\ tool_calls_to_execute = <<>>
    /\ exec_pos = 0
    /\ emitted = <<>>
    /\ streams = <<PrimaryKwargs(<<SystemMessage, UserMessage>>)>>
    /\ primary_read = <<>>
    /\ followup_read = <<>>
    /\ executions = <<>>
    /\ provider_failed = "no"
    /\ finish_seen = None
    /\ frag_log = <<>>
    /\ cancelled = FALSE
    /\ memories = NoMemories
    /\ requests = <<>>
    /\ store_log = {}
    /\ mem0_store = EmptyStore
    /\ mem0_cache = NoCache
    /\ written_since = NotWritten
    /\ last_response = NoResponse

\* A chunk without content and without finish_reason delivers one fragment.
AssemblerIngest(f) ==
    /\ pc = "assembling"
    /\ Len(frag_log) < MaxLog
    /\ WithinArgBound(tool_calls_to_execute, <<f>>)
    /\ frag_log' = Append(frag_log, f)
    /\ tool_calls_to_execute' = IngestAll(tool_calls_to_execute, <<f>>).slots
    /\ UNCHANGED <<pc, user_id, client_present, full_messages, exec_pos, emitted,
                   streams, primary_read, followup_read, executions, provider_failed, finish_seen>>
    /\ UNCHANGED <<cancelled, chatVars>>

\* finish_reason = tool_calls: the batch is complete and the slots are drained
\* into the assistant message.
AssemblerDrain ==
    /\ pc = "assembling"
    /\ tool_calls_to_execute # <<>>
    /\ full_messages' = Append(full_messages, AssistantMessage(tool_calls_to_execute))
    /\ exec_pos' = NextPresent(tool_calls_to_execute, 1)
    /\ finish_seen' = "tool_calls"
    /\ pc' = "drained"
    /\ UNCHANGED <<user_id, client_present, tool_calls_to_execute, emitted, streams,
                   primary_read, followup_read, executions, provider_failed, frag_log>>
    /\ UNCHANGED <<cancelled, chatVars>>

\* The chunk that carries finish_reason = tool_calls also carries a fragment:
\* the tool-call branch runs first, then the slots are drained.
AssemblerFinishChunk(f) ==
    /\ pc = "assembling"
    /\ Len(frag_log) < MaxLog
    /\ WithinArgBound(tool_calls_to_execute, <<f>>)
    /\ frag_log' = Append(frag_log, f)
    /\ tool_calls_to_execute' = IngestAll(tool_calls_to_execute, <<f>>).slots
    /\ tool_calls_to_execute' # <<>>
    /\ full_messages' = Append(full_messages, AssistantMessage(tool_calls_to_execute'))
    /\ exec_pos' = NextPresent(tool_calls_to_execute', 1)
    /\ finish_seen' = "tool_calls"
    /\ pc' = "drained"
    /\ UNCHANGED <<user_id, client_present, emitted, streams, primary_read,
                   followup_read, executions, provider_failed>>
    /\ UNCHANGED <<cancelled, chatVars>>

\* One iteration of the execution loop over the drained slots, with a Memory
\* Store that answers normally.
AssemblerExecute ==
    /\ pc \in {"drained", "executing"}
    /\ exec_pos <= Len(tool_calls_to_execute)
    /\ LET slot == tool_calls_to_execute[exec_pos]
           ex == ExecuteToolCall(slot, user_id, client_present, "ok")
       IN /\ executions' = Append(executions,
                 [index |-> exec_pos - 1, tool_result |-> ex.tool_result,
                  mem0 |-> ex.mem0, client |-> ex.client])
          /\ full_messages' = Append(full_messages, ToolMessage(slot, ex.tool_result))
    /\ exec_pos' = NextPresent(tool_calls_to_execute, exec_pos + 1)
    /\ pc' = "executing"
    /\ UNCHANGED <<user_id, client_present, tool_calls_to_execute, emitted,
                   streams, primary_read, followup_read, provider_failed,
                   finish_seen, frag_log>>
    /\ UNCHANGED <<cancelled, chatVars>>

NextAssembler ==
    \/ \E f \in AssemblerFragments : AssemblerIngest(f)
    \/ AssemblerDrain
    \/ \E f \in AssemblerFragments : AssemblerFinishChunk(f)
    \/ AssemblerExecute

SpecAssembler == InitAssembler /\ [][NextAssembler]_vars

\* The fragments of a log that belong to index i, in arrival order.
RECURSIVE FragmentsOf(_, _)
FragmentsOf(log, i) ==
    IF log = <<>> THEN <<>>
    ELSE (IF Head(log).index = i THEN <<Head(log)>> ELSE <<>>)
         \o FragmentsOf(Tail(log), i)

\* The unsplit argument text of a sequence of fragments (a null fragment adds nothing).
RECURSIVE UnsplitText(_)
UnsplitText(frags) ==
    IF frags = <<>> THEN <<>>
    ELSE (IF Head(frags).arguments = NoneArgs THEN <<>> ELSE Head(frags).arguments)
         \o UnsplitText(Tail(frags))

\* The first non-null id and name among a sequence of fragments.
RECURSIVE FirstId(_)
FirstId(frags) ==
    IF frags = <<>> THEN None
    ELSE IF Head(frags).id # None THEN Head(frags).id ELSE FirstId(Tail(frags))
RECURSIVE FirstName(_)
FirstName(frags) ==
    IF frags = <<>> THEN None
    ELSE IF Head(frags).name # None THEN Head(frags).name ELSE FirstName(Tail(frags))

SlotPresent(i) ==
    i + 1 <= Len(tool_calls_to_execute) /\ tool_calls_to_execute[i + 1].present

(***************************************************************************)
(* The /chat route: generate_response turns the StreamChunks of the        *)
(* orchestrator into the events of the response.  Text is a sequence of    *)
(* characters; the route's state is the text collected in full_response,   *)
(* the events yielded, the responses handed to add_conversation and        *)
(* whether the generator has returned.                                     *)
(***************************************************************************)
\* the text of a chunk's content
ContentText(c) == IF c = "" THEN <<>> ELSE <<c>>

\* `data: {chunk.model_dump_json()}` and `data: [DONE]`
JsonEvent(content, done) == [kind |-> "json", content |-> content, done |-> done]
Sentinel == [kind |-> "DONE", content |-> "", done |-> FALSE]
RouteErrorText == "Error"

\* `full_response.strip()` is falsy: the text is empty or all whitespace
IsBlankOnlyEmpty(text) == text = <<>>
IsBlank(text) == \A i \in 1..Len(text) : text[i] = " "

RouteStart == [full_response |-> <<>>, events |-> <<>>, stored |-> <<>>,
               finished |-> FALSE]

\* `except Exception`: the error event and the sentinel end the response.
RouteExcept(rs) ==
    [rs EXCEPT !.events = @ \o <<JsonEvent(RouteErrorText, TRUE), Sentinel>>,
               !.finished = TRUE]

\* The body of `async for chunk in ...stream_chat_completion(...)` for one
\* chunk; add_raises says whether add_conversation raises when it is called
\* (it appends to the history first: only what follows the append can raise).
RouteOnChunk(rs, chunk, add_raises) ==
    IF chunk.done
    THEN LET called == [rs EXCEPT !.stored = IF IsBlank(rs.full_response) THEN @
                                            ELSE Append(@, rs.full_response)]
         IN IF ~IsBlank(rs.full_response) /\ add_raises
            THEN RouteExcept(called)
            ELSE [called EXCEPT
                     !.events = Append(@, JsonEvent(chunk.content, chunk.done))]
    ELSE [rs EXCEPT !.full_response = @ \o ContentText(chunk.content),
                    !.events = Append(@, JsonEvent(chunk.content, chunk.done))]

\* The orchestrator's generator is exhausted: the sentinel is yielded.
RouteOnEnd(rs) == [rs EXCEPT !.events = Append(@, Sentinel), !.finished = TRUE]

\* generate_response run over all the chunks of a turn that has ended.
RECURSIVE GenerateResponse(_, _, _)
GenerateResponse(rs, chunks, add_raises) ==
    IF rs.finished THEN rs
    ELSE IF chunks = <<>> THEN RouteOnEnd(rs)
    ELSE GenerateResponse(RouteOnChunk(rs, Head(chunks), add_raises),
                          Tail(chunks), add_raises)

(***************************************************************************)
(* MemoryService: the per-user conversation history and the context built  *)
(* from it.                                                                *)
(***************************************************************************)
max_memories_per_user == 50

\* seq[-n:] for n > 0
LastNFromStart(seq, n) ==
    IF Len(seq) > n THEN SubSeq(seq, 1, n) ELSE seq
LastN(seq, n) ==
    IF Len(seq) > n THEN SubSeq(seq, Len(seq) - n + 1, Len(seq)) ELSE seq

Conversation(user_message, assistant_response) ==
    [user_message |-> user_message, assistant_response |-> assistant_response]

\* MemoryService.add_conversation: the history of user_id after the call
AddConversationSharedKey(mem, uid, user_message, assistant_response) ==
    [mem EXCEPT !["u1"] =
        LastN(Append(@, Conversation(user_message, assistant_response)),
              max_memories_per_user)]
AddConversation(mem, uid, user_message, assistant_response) ==
    [mem EXCEPT ![uid] =
        LastN(Append(@, Conversation(user_message, assistant_response)),
              max_memories_per_user)]

\* MemoryService.get_conversation_history; a limit of 0 (or None) is falsy
\* and gives the whole history
GetConversationHistory(mem, uid, limit) ==
    IF limit = 0 THEN mem[uid] ELSE LastN(mem[uid], limit)

ChatMessage(role, content) == [role |-> role, content |-> content]

\* MemoryService.get_recent_messages_for_context
RECURSIVE ConversationMessages(_)
ConversationMessages(history) ==
    IF history = <<>> THEN <<>>
    ELSE <<ChatMessage("user", Head(history).user_message),
           ChatMessage("assistant", Head(history).assistant_response)>>
         \o ConversationMessages(Tail(history))
GetRecentMessagesForContext(mem, uid, max_messages) ==
    ConversationMessages(GetConversationHistory(mem, uid, max_messages))

\* MemoryService.get_enhanced_context; relevant is what search_memories
\* returned for the user
GetEnhancedContextWholeHistory(mem, uid, relevant, max_recent) ==
    (IF relevant = "memories"
     THEN <<ChatMessage("system", <<"Relevant memories", uid>>)>> ELSE <<>>)
    \o ConversationMessages(mem[uid])
GetEnhancedContext(mem, uid, relevant, max_recent) ==
    (IF relevant = "memories"
     THEN <<ChatMessage("system", <<"Relevant memories", uid>>)>> ELSE <<>>)
    \o GetRecentMessagesForContext(mem, uid, max_recent)

(***************************************************************************)
(* Concurrent /chat requests over the shared MemoryService.  chat_stream   *)
(* builds the context and returns the response; the server then iterates   *)
(* generate_response, which suspends at every chunk, so the steps of       *)
(* different requests interleave.  The orchestrator is seen from the       *)
(* route: content chunks, a terminal chunk, the end of the generator; it   *)
(* is handed request.user_id (stream_user_id), the id its memory tools     *)
(* pass to Mem0Service.  The message of a request and the text the         *)
(* provider answers with name the user they belong to.                     *)
(***************************************************************************)
MaxRequests == 2        \* /chat requests in a behaviour
MaxTurnChunks == 1      \* content chunks of one response

turnVars == <<pc, user_id, client_present, full_messages, tool_calls_to_execute,
              exec_pos, emitted, streams, primary_read, followup_read, executions,
              provider_failed, finish_seen, frag_log, cancelled, svcVars>>

ReplyTo(u) == IF u = "u1" THEN "to_u1" ELSE "to_u2"

InitChat ==
    /\ pc = "chat"
    /\ user_id = "u1"
    /\ client_present = TRUE
    /\ full_messages = <<>>
    /\ tool_calls_to_execute = <<>>
    /\ exec_pos = 0
    /\ emitted = <<>>
    /\ streams = <<>>
    /\ primary_read = <<>>
    /\ followup_read = <<>>
    /\ executions = <<>>
    /\ provider_failed = "no"
    /\ finish_seen = None
    /\ frag_log = <<>>
    /\ cancelled = FALSE
    /\ memories = NoMemories
    /\ requests = <<>>
    /\ store_log = {}
    /\ mem0_store = EmptyStore
    /\ mem0_cache = NoCache
    /\ written_since = NotWritten
    /\ last_response = NoResponse

StoreCall(r, method, uid) == [request |-> r, method |-> method, user_id |-> uid]

\* the route has received the chunk with done = TRUE
SawTerminal(rs) == \E i \in 1..Len(rs.events) : rs.events[i].done

\* POST /chat: chat_stream builds the context from the history and the
\* memory search and starts the response.
ChatStream(u, outcome) ==
    /\ Len(requests) < MaxRequests
    /\ LET r == Len(requests) + 1
           message == <<u, r>>
           found == Mem0SearchMemories(client_present, u, outcome)
           context == GetEnhancedContext(memories, u, found.result, 5)
       IN /\ requests' = Append(requests,
                 [user_id |-> u, message |-> message, pc |-> "streaming",
                  messages |-> Append(context, ChatMessage("user", message)),
                  stream_user_id |-> u, rs |-> RouteStart, job |-> "none"])
          /\ store_log' = store_log \cup {StoreCall(r, "search_memories", u)}
    /\ UNCHANGED <<memories, turnVars>>

\* request r waits for the next chunk of its orchestrator
Streaming(r) ==
    /\ r \in 1..Len(requests)
    /\ requests[r].pc = "streaming"
    /\ ~requests[r].rs.finished

\* The orchestrator of request r yields a content chunk.
ChatChunk(r) ==
    /\ Streaming(r)
    /\ ~SawTerminal(requests[r].rs)
    /\ Len(requests[r].rs.events) < MaxTurnChunks
    /\ requests' = [requests EXCEPT ![r].rs =
           RouteOnChunk(@, ContentChunk(ReplyTo(requests[r].user_id)), FALSE)]
    /\ UNCHANGED <<memories, store_log, turnVars>>

\* The orchestrator of request r yields its terminal chunk: the route records
\* the conversation when the collected text is not blank, which appends to
\* the history and schedules the Mem0 persistence job.
ChatTerminal(r, chunk) ==
    /\ Streaming(r)
    /\ ~SawTerminal(requests[r].rs)
    /\ LET req == requests[r]
           after == RouteOnChunk(req.rs, chunk, FALSE)
           recorded == Len(after.stored) > Len(req.rs.stored)
       IN /\ requests' = [requests EXCEPT
                 ![r].rs = after,
                 ![r].pc = IF after.finished THEN "finished" ELSE @,
                 ![r].job = IF recorded THEN "pending" ELSE @]
          /\ memories' = IF recorded
                         THEN AddConversation(memories, req.user_id, req.message,
                                              req.rs.full_response)
                         ELSE memories
    /\ UNCHANGED <<store_log, turnVars>>

\* The orchestrator's generator of request r is exhausted.
ChatEnd(r) ==
    /\ Streaming(r)
    /\ requests' = [requests EXCEPT ![r].rs = RouteOnEnd(@), ![r].pc = "finished"]
    /\ UNCHANGED <<memories, store_log, turnVars>>

\* The background task _store_important_memories of request r runs.
ChatStoreJob(r) ==
    /\ r \in 1..Len(requests)
    /\ requests[r].job = "pending"
    /\ requests' = [requests EXCEPT ![r].job = "ran"]
    /\ store_log' = store_log \cup {StoreCall(r, "add_memory", requests[r].user_id)}
    /\ UNCHANGED <<memories, turnVars>>

NextChat ==
    \/ \E u \in ChatUsers, outcome \in SearchOutcomes : ChatStream(u, outcome)
    \/ \E r \in 1..MaxRequests : ChatChunk(r)
    \/ \E r \in 1..MaxRequests : ChatTerminal(r, DoneChunk)
    \/ \E r \in 1..MaxRequests : ChatEnd(r)
    \/ \E r \in 1..MaxRequests : ChatStoreJob(r)

SpecChat == InitChat /\ [][NextChat]_vars

\* request r has built its context and its response has not ended
InFlight(r) == requests[r].pc # "finished"

(***************************************************************************)
(* The conversation-history routes of app/routes/chat.py over              *)
(* MemoryService: POST /chat/simple, GET and DELETE /chat/history/{user},  *)
(* and add_conversation as the /chat route calls it.  Every call leaves    *)
(* what it returned in last_response.                                      *)
(***************************************************************************)
MaxAdds == 1            \* conversations added beyond max_memories_per_user

\* the methods OpenAIService and MemoryService define
OpenAIServiceMethods ==
    {"_execute_tool_call", "stream_chat_completion", "update_system_prompt",
     "get_enhanced_system_prompt"}
MemoryServiceMethods ==
    {"add_conversation", "_store_important_memories", "get_conversation_history",
     "get_recent_messages_for_context", "get_relevant_memories",
     "get_all_memories", "add_important_fact", "delete_memory",
     "clear_user_memories", "get_memory_stats", "get_enhanced_context"}

\* the limit query parameters tried on GET /chat/history
Limits == {0, 1, max_memories_per_user}

\* the number carried by the next message of user uid
NextNumber(mem, uid) ==
    IF mem[uid] = <<>> THEN 1 ELSE mem[uid][Len(mem[uid])].user_message[2] + 1

\* `except Exception` of a route: HTTPException(status_code=500)
InternalServerError(op, uid) == [op |-> op, user_id |-> uid, status |-> 500]

InitHistory ==
    /\ pc = "history"
    /\ user_id = "u1"
    /\ client_present = TRUE
    /\ full_messages = <<>>
    /\ tool_calls_to_execute = <<>>
    /\ exec_pos = 0
    /\ emitted = <<>>
    /\ streams = <<>>
    /\ primary_read = <<>>
    /\ followup_read = <<>>
    /\ executions = <<>>
    /\ provider_failed = "no"
    /\ finish_seen = None
    /\ frag_log = <<>>
    /\ cancelled = FALSE
    /\ memories = NoMemories
    /\ requests = <<>>
    /\ store_log = {}
    /\ mem0_store = EmptyStore
    /\ mem0_cache = NoCache
    /\ written_since = NotWritten
    /\ last_response = NoResponse

historyFrame == <<pc, user_id, client_present, full_messages, tool_calls_to_execute,
                  exec_pos, emitted, streams, primary_read, followup_read,
                  executions, provider_failed, finish_seen, frag_log, cancelled,
                  requests, store_log, mem0_store, mem0_cache, written_since>>

\* memory_service.add_conversation(user_id, message, full_response) of a
\* /chat turn that ended with a non-blank response
RecordConversation(u) ==
    /\ NextNumber(memories, u) <= max_memories_per_user + MaxAdds
    /\ LET message == <<u, NextNumber(memories, u)>>
       IN /\ memories' = AddConversation(memories, u, message, <<ReplyTo(u)>>)
          /\ last_response' = [op |-> "add_conversation", user_id |-> u,
                               message |-> message]
    /\ UNCHANGED historyFrame

\* POST /chat/simple with a provider that answers normally
ChatSimple(u) ==
    /\ NextNumber(memories, u) <= max_memories_per_user + MaxAdds
    /\ LET message == <<u, NextNumber(memories, u)>>
           response == <<ReplyTo(u)>>
       IN IF "get_chat_completion" \in OpenAIServiceMethods
          THEN /\ memories' = AddConversation(memories, u, message, response)
               /\ last_response' = [op |-> "chat_simple", user_id |-> u,
                                    status |-> 200, message |-> message,
                                    response |-> response, timestamp |-> TRUE]
          ELSE /\ memories' = memories
               /\ last_response' = InternalServerError("chat_simple", u)
    /\ UNCHANGED historyFrame

\* GET /chat/history/{user_id}?limit=
GetChatHistory(u, limit) ==
    /\ LET history == GetConversationHistory(memories, u, limit)
       IN last_response' = [op |-> "get_chat_history", user_id |-> u,
                            status |-> 200, limit |-> limit,
                            history |-> history, count |-> Len(history)]
    /\ UNCHANGED <<memories, historyFrame>>

\* DELETE /chat/history/{user_id}
ClearChatHistory(u) ==
    /\ IF "clear_user_memory" \in MemoryServiceMethods
       THEN /\ memories' = [memories EXCEPT ![u] = <<>>]
            /\ last_response' = [op |-> "clear_chat_history", user_id |-> u,
                                 status |-> 200]
       ELSE /\ memories' = memories
            /\ last_response' = InternalServerError("clear_chat_history", u)
    /\ UNCHANGED historyFrame

NextHistory ==
    \/ \E u \in ChatUsers : RecordConversation(u)
    \/ \E u \in ChatUsers : ChatSimple(u)
    \/ \E u \in ChatUsers, limit \in Limits : GetChatHistory(u, limit)
    \/ \E u \in ChatUsers : ClearChatHistory(u)

SpecHistory == InitHistory /\ [][NextHistory]_vars

(***************************************************************************)
(* The Mem0 cache of MemoryService: get_all_memories, add_important_fact,  *)
(* delete_memory and clear_user_memories over a Memory Store that holds a  *)
(* set of memory ids per user.  The client outcome of each call is chosen  *)
(* by the environment.                                                     *)
(***************************************************************************)
MaxMemoryIds == 1       \* memory ids the Memory Store can hold per user

MemoryIds == 1..MaxMemoryIds

InitCache ==
    /\ pc = "cache"
    /\ user_id = "u1"
    /\ client_present = TRUE
    /\ full_messages = <<>>
    /\ tool_calls_to_execute = <<>>
    /\ exec_pos = 0
    /\ emitted = <<>>
    /\ streams = <<>>
    /\ primary_read = <<>>
    /\ followup_read = <<>>
    /\ executions = <<>>
    /\ provider_failed = "no"
    /\ finish_seen = None
    /\ frag_log = <<>>
    /\ cancelled = FALSE
    /\ memories = NoMemories
    /\ requests = <<>>
    /\ store_log = {}
    /\ mem0_store = EmptyStore
    /\ mem0_cache = NoCache
    /\ written_since = NotWritten
    /\ last_response = NoResponse

cacheFrame == <<pc, user_id, client_present, full_messages, tool_calls_to_execute,
                exec_pos, emitted, streams, primary_read, followup_read,
                executions, provider_failed, finish_seen, frag_log, cancelled,
                requests, store_log>>

\* `cache_key in self.mem0_cache`
Cached(cache, uid) == uid \in DOMAIN cache

\* self.mem0_cache[cache_key] = list
CachePut(cache, uid, list) ==
    [b \in DOMAIN cache \cup {uid} |-> IF b = uid THEN list ELSE cache[b]]

\* `if cache_key in self.mem0_cache: del self.mem0_cache[cache_key]`
CacheInvalidate(cache, uid) == [b \in DOMAIN cache \ {uid} |-> cache[b]]

\* the list Mem0Service.get_all_memories returns for a client outcome
FetchedList(store, uid, fetched) ==
    IF fetched.result = "memories" THEN store[uid] ELSE {}

\* the client outcomes possible for a search over the store of uid
FetchOutcomes(store, uid) ==
    {"raise", IF store[uid] = {} THEN "empty" ELSE "ok"}

\* MemoryService.get_all_memories
GetAllMemories(u, outcome) ==
    /\ outcome \in FetchOutcomes(mem0_store, u)
    /\ IF Cached(mem0_cache, u)
       THEN /\ last_response' = [op |-> "get_all_memories", user_id |-> u,
                                 result |-> mem0_cache[u], fetch |-> "none",
                                 after_write |-> written_since[u],
                                 current |-> mem0_store[u]]
            /\ UNCHANGED <<mem0_cache, written_since>>
       ELSE LET fetched == Mem0GetAllMemories(client_present, u, outcome)
                list == FetchedList(mem0_store, u, fetched)
            IN /\ mem0_cache' = CachePut(mem0_cache, u, list)
               /\ written_since' = [written_since EXCEPT ![u] = FALSE]
               /\ last_response' = [op |-> "get_all_memories", user_id |-> u,
                                    result |-> list, fetch |-> outcome,
                                    after_write |-> FALSE,
                                    current |-> mem0_store[u]]
    /\ UNCHANGED <<memories, mem0_store, cacheFrame>>

\* a write for u through MemoryService completed while u has a cache entry
WrittenAfter(cache, written, u, done) ==
    [written EXCEPT ![u] = IF Cached(cache, u) THEN @ \/ done ELSE FALSE]

\* MemoryService.add_important_fact
AddImportantFact(u, id, outcome) ==
    /\ id \notin mem0_store[u]
    /\ LET added == Mem0AddMemory(client_present, u, outcome)
           done == ~HasErrorKey(added.result)
       IN /\ mem0_store' = IF done THEN [mem0_store EXCEPT ![u] = @ \cup {id}]
                                   ELSE mem0_store
          /\ mem0_cache' = CacheInvalidate(mem0_cache, u)
          /\ written_since' = WrittenAfter(mem0_cache', written_since, u, done)
          /\ last_response' = [op |-> "add_important_fact", user_id |-> u,
                               result |-> added.result]
    /\ UNCHANGED <<memories, cacheFrame>>

\* MemoryService.delete_memory
DeleteMemory(u, id, outcome) ==
    /\ id \in mem0_store[u]
    /\ LET deleted == Mem0DeleteMemory(client_present, u, outcome)
           done == ~HasErrorKey(deleted.result)
       IN /\ mem0_store' = IF done THEN [mem0_store EXCEPT ![u] = @ \ {id}]
                                   ELSE mem0_store
          /\ written_since' = WrittenAfter(mem0_cache, written_since, u, done)
          /\ last_response' = [op |-> "delete_memory", user_id |-> u,
                               result |-> deleted.result]
    /\ UNCHANGED <<memories, mem0_cache, cacheFrame>>

\* MemoryService.clear_user_memories
ClearUserMemories(u, listing, deletion) ==
    /\ listing \in FetchOutcomes(mem0_store, u)
    /\ LET cleared == Mem0DeleteAllMemories(client_present, u, listing, deletion)
           done == cleared.result = "deleted_1_of_1"
       IN /\ memories' = [memories EXCEPT ![u] = <<>>]
          /\ mem0_store' = IF done THEN [mem0_store EXCEPT ![u] = {}]
                                   ELSE mem0_store
          /\ written_since' = WrittenAfter(mem0_cache, written_since, u, done)
          /\ last_response' = [op |-> "clear_user_memories", user_id |-> u,
                               result |-> cleared.result]
    /\ UNCHANGED <<mem0_cache, cacheFrame>>

NextCache ==
    \/ \E u \in ChatUsers, outcome \in SearchOutcomes : GetAllMemories(u, outcome)
    \/ \E u \in ChatUsers, id \in MemoryIds, outcome \in WriteOutcomes :
          AddImportantFact(u, id, outcome)
    \/ \E u \in ChatUsers, id \in MemoryIds, outcome \in WriteOutcomes :
          DeleteMemory(u, id, outcome)
    \/ \E u \in ChatUsers, listing \in SearchOutcomes, deletion \in WriteOutcomes :
          ClearUserMemories(u, listing, deletion)

SpecCache == InitCache /\ [][NextCache]_vars

(***************************************************************************)
(* The conversation context of a /chat turn from the route to the          *)
(* provider: chat_stream builds the caller's message list, the             *)
(* orchestrator prefixes the system prompt, appends the assistant          *)
(* tool-call message and the tool messages to its own list, and the route  *)
(* records the exchange when the turn ends.  Turns follow one another, so  *)
(* that histories grow beyond max_recent_messages.                         *)
(***************************************************************************)
MaxTurns == 6           \* exchanges a user has recorded when a turn starts
max_recent_messages == 5

\* `[{"role": "system", "content": system_prompt}] + messages`
FullMessages(messages) == <<SystemMessage>> \o messages

\* the slot and the result of the tool call of a turn that enters the tool phase
ContextSlot ==
    [present |-> TRUE, id |-> "call_0", type |-> "function",
     name |-> "search_memories", arguments |-> <<"{", "}">>]
ContextToolResult == ToolResult(ContextSlot, "no_memories", TRUE)

InitContext ==
    /\ pc = "context"
    /\ user_id = "u1"
    /\ client_present = TRUE
    /\ full_messages = <<>>
    /\ tool_calls_to_execute = <<>>
    /\ exec_pos = 0
    /\ emitted = <<>>
    /\ streams = <<>>
    /\ primary_read = <<>>
    /\ followup_read = <<>>
    /\ executions = <<>>
    /\ provider_failed = "no"
    /\ finish_seen = None
    /\ frag_log = <<>>
    /\ cancelled = FALSE
    /\ memories = NoMemories
    /\ requests = <<>>
    /\ store_log = {}
    /\ mem0_store = EmptyStore
    /\ mem0_cache = NoCache
    /\ written_since = NotWritten
    /\ last_response = NoResponse

contextFrame == <<client_present, tool_calls_to_execute, exec_pos, emitted,
                  primary_read, followup_read, executions, provider_failed,
                  finish_seen, frag_log, cancelled, store_log, svcVars>>

\* POST /chat: the route builds the context and the orchestrator opens the
\* primary stream with the system prompt in front of it
StartTurn(u, outcome) ==
    /\ pc = "context"
    /\ Len(memories[u]) <= MaxTurns
    /\ LET message == <<u, NextNumber(memories, u)>>
           found == Mem0SearchMemories(client_present, u, outcome)
           context == GetEnhancedContext(memories, u, found.result,
                                         max_recent_messages)
           messages == Append(context, ChatMessage("user", message))
       IN /\ requests' = <<[user_id |-> u, message |-> message,
                            found |-> found.result, messages |-> messages]>>
          /\ full_messages' = FullMessages(messages)
          /\ streams' = <<PrimaryKwargs(full_messages')>>
    /\ user_id' = u
    /\ pc' = "primary"
    /\ UNCHANGED <<memories, contextFrame>>

\* the primary stream finished with tool_calls: the assistant tool-call
\* message and the tool message are appended and the follow-up is opened
TurnToolPhase ==
    /\ pc = "primary"
    /\ full_messages' = full_messages
          \o <<AssistantMessage(<<ContextSlot>>),
               ToolMessage(ContextSlot, ContextToolResult)>>
    /\ streams' = Append(streams, FollowUpKwargs(full_messages'))
    /\ pc' = "followup"
    /\ UNCHANGED <<user_id, memories, requests, contextFrame>>

\* the terminal chunk reaches the route, which records the exchange when the
\* collected response is not blank
TurnEnds(blank) ==
    /\ pc \in {"primary", "followup"}
    /\ LET response == IF blank THEN <<>> ELSE <<ReplyTo(user_id)>>
       IN memories' = IF IsBlank(response) THEN memories
                      ELSE AddConversation(memories, user_id,
                                           requests[1].message, response)
    /\ pc' = "context"
    /\ UNCHANGED <<user_id, full_messages, streams, requests, contextFrame>>

NextContext ==
    \/ \E u \in ChatUsers, outcome \in SearchOutcomes : StartTurn(u, outcome)
    \/ TurnToolPhase
    \/ \E blank \in BOOLEAN : TurnEnds(blank)

SpecContext == InitContext /\ [][NextContext]_vars

(***************************************************************************)
(* The /chat route over one turn, chunk by chunk: generate_response        *)
(* receives the StreamChunks of stream_chat_completion (content chunks,    *)
(* then at most one terminal chunk, then the end of the generator) and     *)
(* records the response in the session history of the request's user.      *)
(* `emitted` holds the chunks received, requests[1].rs the route's state.  *)
(***************************************************************************)
MaxRouteChunks == 3     \* content chunks of one turn
RouteContents == {"", "a", " "}      \* chunk.content: empty, text, whitespace

InitRoute ==
    /\ pc = "route"
    /\ user_id = "u1"
    /\ client_present = TRUE
    /\ full_messages = <<>>
    /\ tool_calls_to_execute = <<>>
    /\ exec_pos = 0
    /\ emitted = <<>>
    /\ streams = <<>>
    /\ primary_read = <<>>
    /\ followup_read = <<>>
    /\ executions = <<>>
    /\ provider_failed = "no"
    /\ finish_seen = None
    /\ frag_log = <<>>
    /\ cancelled = FALSE
    /\ memories = NoMemories
    /\ requests = <<[user_id |-> "u1", message |-> "user_message", rs |-> RouteStart,
                      jobs |-> <<>>]>>
    /\ store_log = {}
    /\ mem0_store = EmptyStore
    /\ mem0_cache = NoCache
    /\ written_since = NotWritten
    /\ last_response = NoResponse

routeOrchestrator == <<pc, user_id, client_present, full_messages,
                       tool_calls_to_execute, exec_pos, streams, primary_read,
                       followup_read, executions, provider_failed, finish_seen,
                       frag_log, cancelled, svcVars>>
routeFrame == <<routeOrchestrator, store_log>>

\* loop.create_task(self._store_important_memories(...)), or the daemon
\* thread when no event loop is available: one more job, not yet run
CreateTaskTwice(jobs) == jobs \o <<"pending", "pending">>
CreateTask(jobs) == Append(jobs, "pending")

\* _store_important_memories: awaits add_memory and swallows every
\* exception; the state of the job when it is over
StoreImportantMemories(present, uid, outcome) ==
    LET added == Mem0AddMemory(present, uid, outcome)
    IN [job |-> IF added.result = "store_result" THEN "stored" ELSE "failed",
        raised |-> FALSE, client |-> added.client]

\* the route is inside `async for` and no chunk with done = True has come
RouteRunning ==
    /\ pc = "route"
    /\ ~requests[1].rs.finished
    /\ \A k \in 1..Len(emitted) : ~emitted[k].done

\* One pass of the loop body; add_conversation is called with full_response
\* when the body handed a response over.
RouteReceive(chunk, add_raises) ==
    LET req == requests[1]
        rs2 == RouteOnChunk(req.rs, chunk, add_raises)
        recorded == Len(rs2.stored) > Len(req.rs.stored)
    IN /\ emitted' = Append(emitted, chunk)
       \* what can raise after the append is the scheduling of the job
       /\ requests' = <<[req EXCEPT !.rs = rs2,
                                    !.jobs = IF recorded /\ ~add_raises
                                             THEN CreateTask(@) ELSE @]>>
       /\ memories' = IF recorded
                      THEN AddConversation(memories, req.user_id, req.message,
                                           rs2.stored[Len(rs2.stored)])
                      ELSE memories
       /\ UNCHANGED routeFrame

RouteContent(c) ==
    /\ RouteRunning
    /\ Len(emitted) < MaxRouteChunks
    /\ RouteReceive(ContentChunk(c), FALSE)

RouteTerminal(chunk, add_raises) ==
    /\ RouteRunning
    /\ RouteReceive(chunk, add_raises)

\* stream_chat_completion returns, after its terminal chunk or without one
RouteGeneratorEnds ==
    /\ pc = "route"
    /\ ~requests[1].rs.finished
    /\ requests' = <<[requests[1] EXCEPT !.rs = RouteOnEnd(@)]>>
    /\ UNCHANGED <<emitted, memories, routeFrame>>

\* The scheduler runs a pending persistence job, during the response or
\* after it; the Memory Store answers, reports an error or raises.
RouteStoreJob(j, outcome) ==
    /\ pc = "route"
    /\ j \in 1..Len(requests[1].jobs)
    /\ requests[1].jobs[j] = "pending"
    /\ LET req == requests[1]
           ran == StoreImportantMemories(client_present, req.user_id, outcome)
       IN /\ requests' = <<[req EXCEPT
                 !.jobs[j] = ran.job,
                 !.rs = IF ran.raised THEN RouteExcept(@) ELSE @]>>
          /\ store_log' = store_log \cup {StoreCall(1, "add_memory", req.user_id)}
    /\ UNCHANGED <<emitted, memories, routeOrchestrator>>

NextRoute ==
    \/ \E c \in RouteContents : RouteContent(c)
    \/ \E chunk \in {DoneChunk, ErrorChunk}, add_raises \in BOOLEAN :
          RouteTerminal(chunk, add_raises)
    \/ RouteGeneratorEnds
    \/ \E j \in 1..2, outcome \in WriteOutcomes : RouteStoreJob(j, outcome)

SpecRoute == InitRoute /\ [][NextRoute]_vars

(***************************************************************************)
(* Mem0Service.search_memories on its own: the client is present or not,   *)
(* the Memory Store answers with an ordered list or raises, and the caller *)
(* passes a limit.  The call and what it returned are kept in              *)
(* last_response.                                                          *)
(***************************************************************************)
MaxSearchResults == 3   \* entries the Memory Store returns for one search

SearchEntries == 1..MaxSearchResults
SearchLimits == 0..(MaxSearchResults + 1)

\* the ordered lists of at most n entries
ListsUpTo(n) == UNION {[1..k -> SearchEntries] : k \in 0..n}

\* what self.client.search does: it returns a list or it raises
StoreAnswers ==
    {[raises |-> FALSE, memories |-> l] : l \in ListsUpTo(MaxSearchResults)}
        \cup {[raises |-> TRUE, memories |-> <<>>]}

\* search_memories(user_id, query, limit): [] without a client and on any
\* exception; else the store's list, cut to memories[:limit] when limit is
\* truthy and the list is longer
SearchMemoriesLastEntries(present, answer, limit) ==
    IF ~present \/ answer.raises THEN [memories |-> <<>>, raised |-> FALSE]
    ELSE [memories |-> IF limit # 0 /\ Len(answer.memories) > limit
                       THEN LastN(answer.memories, limit)
                       ELSE answer.memories,
          raised |-> FALSE]
SearchMemories(present, answer, limit) ==
    IF ~present \/ answer.raises THEN [memories |-> <<>>, raised |-> FALSE]
    ELSE [memories |-> IF limit # 0 /\ Len(answer.memories) > limit
                       THEN SubSeq(answer.memories, 1, limit)
                       ELSE answer.memories,
          raised |-> FALSE]

InitSearch ==
    /\ pc = "search"
    /\ user_id = "u1"
    /\ client_present \in BOOLEAN
    /\ full_messages = <<>>
    /\ tool_calls_to_execute = <<>>
    /\ exec_pos = 0
    /\ emitted = <<>>
    /\ streams = <<>>
    /\ primary_read = <<>>
    /\ followup_read = <<>>
    /\ executions = <<>>
    /\ provider_failed = "no"
    /\ finish_seen = None
    /\ frag_log = <<>>
    /\ cancelled = FALSE
    /\ memories = NoMemories
    /\ requests = <<>>
    /\ store_log = {}
    /\ mem0_store = EmptyStore
    /\ mem0_cache = NoCache
    /\ written_since = NotWritten
    /\ last_response = NoResponse

searchFrame == <<user_id, client_present, full_messages, tool_calls_to_execute,
                 exec_pos, emitted, streams, primary_read, followup_read,
                 executions, provider_failed, finish_seen, frag_log, cancelled,
                 memories, requests, store_log, mem0_store, mem0_cache,
                 written_since>>

CallSearchMemories(u, answer, limit) ==
    /\ pc = "search"
    /\ LET found == SearchMemories(client_present, answer, limit)
       IN last_response' = [op |-> "search_memories", user_id |-> u,
                            limit |-> limit, answer |-> answer,
                            memories |-> found.memories, raised |-> found.raised]
    /\ pc' = "searched"
    /\ UNCHANGED searchFrame

NextSearch ==
    \E u \in ChatUsers, answer \in StoreAnswers, limit \in SearchLimits :
        CallSearchMemories(u, answer, limit)

SpecSearch == InitSearch /\ [][NextSearch]_vars

(***************************************************************************)
(* DynamicMemoryService.stream_chat_completion: a first completion that is *)
(* not streamed, the manage_memory calls it asks for, a second completion  *)
(* that is streamed.  tool_calls_to_execute holds first_message.tool_calls,*)
(* executions the tool responses, streams the arguments of the provider    *)
(* calls, followup_read the chunks read from the second completion.        *)
(***************************************************************************)
MaxDynCalls == 2        \* tool calls of the first completion
MaxDynChunks == 2       \* chunks read from the second completion

DynCallIds == <<"call_0", "call_1", "call_2", "call_3">>

\* function.name and function.arguments of a tool call: manage_memory with
\* arguments that store, retrieve, name another action or are no JSON, or
\* a function the service does not know
DynFunctions ==
    {[name |-> "manage_memory", arguments |-> a] :
        a \in {"store", "retrieve", "bad_action", "unparseable"}}
    \cup {[name |-> "other_function", arguments |-> "store"]}

DynToolCall(k, f) == [id |-> DynCallIds[k], name |-> f.name, arguments |-> f.arguments]

\* the tool_calls of a first message: ids are distinct
DynToolCalls ==
    UNION {{[k \in 1..n |-> DynToolCall(k, fs[k])] : fs \in [1..n -> DynFunctions]} :
              n \in 0..MaxDynCalls}

\* what the first completion gives: an exception, no choice, or a message
DynFirstOutcomes ==
    {[kind |-> "raise", content |-> None, tool_calls |-> <<>>],
     [kind |-> "no_choice", content |-> None, tool_calls |-> <<>>]}
    \cup {[kind |-> "message", content |-> c, tool_calls |-> tc] :
             c \in {None, "a"}, tc \in DynToolCalls}

DynStreamChunks ==
    {[has_choice |-> FALSE, content |-> None]}
    \cup {[has_choice |-> TRUE, content |-> c] : c \in {None, "a"}}

DynFirstKwargs(msgs) ==
    [tools |-> "memory_tool", tool_choice |-> "auto", messages |-> msgs,
     stream |-> FALSE]
DynSecondKwargs(msgs) ==
    [tools |-> "unset", tool_choice |-> "unset", messages |-> msgs, stream |-> TRUE]

\* _execute_memory_action: the text it returns and the client calls it made;
\* nothing it does raises
ExecuteMemoryAction(arguments, present, uid, outcome) ==
    CASE arguments = "store" ->
            [content |-> "Stored", client |-> Mem0AddMemory(present, uid, outcome).client]
      [] arguments = "retrieve" ->
            LET found == Mem0SearchMemories(present, uid, outcome)
            IN [content |-> IF found.result = "memories" THEN "Retrieved"
                            ELSE "No information found",
                client |-> found.client]
      [] OTHER -> [content |-> "Invalid action", client |-> NoCall]

DynOutcomesFor(call) ==
    IF call.name # "manage_memory" THEN {"ok"}
    ELSE CASE call.arguments = "store" -> WriteOutcomes
           [] call.arguments = "retrieve" -> SearchOutcomes
           [] OTHER -> {"ok"}

\* {"role": "tool", "tool_call_id": tool_call.id, "content": result}
DynToolResponses(execs) ==
    [k \in 1..Len(execs) |-> Message("tool", execs[k].content, <<>>, execs[k].id)]

\* messages + [assistant message with first_message.tool_calls] + tool_responses
SecondMessages(msgs, calls, execs) ==
    msgs \o <<Message("assistant", None, calls, None)>> \o DynToolResponses(execs)

InitDynamic ==
    /\ pc = "dyn_start"
    /\ user_id = "u1"
    /\ client_present \in BOOLEAN
    /\ full_messages = <<SystemMessage, UserMessage>>
    /\ tool_calls_to_execute = <<>>
    /\ exec_pos = 0
    /\ emitted = <<>>
    /\ streams = <<>>
    /\ primary_read = <<>>
    /\ followup_read = <<>>
    /\ executions = <<>>
    /\ provider_failed = "no"
    /\ finish_seen = None
    /\ frag_log = <<>>
    /\ cancelled = FALSE
    /\ memories = NoMemories
    /\ requests = <<>>
    /\ store_log = {}
    /\ mem0_store = EmptyStore
    /\ mem0_cache = NoCache
    /\ written_since = NotWritten
    /\ last_response = NoResponse

dynFrame == <<user_id, client_present, primary_read, finish_seen, frag_log,
              cancelled, chatVars>>

\* `except Exception`: the error chunk with done=True is the last chunk
DynFailThenFinal(point) ==
    /\ emitted' = Append(emitted, ErrorChunk)
    /\ provider_failed' = point
    /\ pc' = "dyn_final"
DynFail(point) ==
    /\ emitted' = Append(emitted, ErrorChunk)
    /\ provider_failed' = point
    /\ pc' = "dyn_done"

\* The first completion is requested and answered.
DynFirstCompletion(first) ==
    /\ pc = "dyn_start"
    /\ streams' = Append(streams, DynFirstKwargs(full_messages))
    /\ IF first.kind # "message"
       THEN /\ DynFail("first_completion")
            /\ UNCHANGED <<tool_calls_to_execute, exec_pos>>
       ELSE IF first.tool_calls # <<>>
       THEN /\ tool_calls_to_execute' = first.tool_calls
            /\ exec_pos' = 1
            /\ pc' = "dyn_exec"
            /\ UNCHANGED <<emitted, provider_failed>>
       ELSE /\ emitted' = Append(emitted,
                 ContentChunk(IF first.content = None THEN "" ELSE first.content))
            /\ pc' = "dyn_final"
            /\ UNCHANGED <<tool_calls_to_execute, exec_pos, provider_failed>>
    /\ UNCHANGED <<full_messages, followup_read, executions, dynFrame>>

\* One iteration of `for tool_call in first_message.tool_calls`.
DynExecuteNext(outcome) ==
    /\ pc = "dyn_exec"
    /\ exec_pos <= Len(tool_calls_to_execute)
    /\ LET call == tool_calls_to_execute[exec_pos]
       IN /\ outcome \in DynOutcomesFor(call)
          /\ IF call.name # "manage_memory"
             THEN /\ exec_pos' = exec_pos + 1
                  /\ UNCHANGED <<executions, emitted, provider_failed, pc>>
             ELSE IF call.arguments = "unparseable"
             THEN /\ DynFail("arguments")
                  /\ UNCHANGED <<executions, exec_pos>>
             ELSE LET done == ExecuteMemoryAction(call.arguments, client_present,
                                                  user_id, outcome)
                  IN /\ executions' = Append(executions,
                            [index |-> exec_pos - 1, id |-> call.id,
                             content |-> done.content, client |-> done.client])
                     /\ exec_pos' = exec_pos + 1
                     /\ UNCHANGED <<emitted, provider_failed, pc>>
    /\ UNCHANGED <<full_messages, tool_calls_to_execute, streams, followup_read,
                   dynFrame>>

\* The second completion is requested, with the tool responses.
DynSecondCompletion(fails) ==
    /\ pc = "dyn_exec"
    /\ exec_pos > Len(tool_calls_to_execute)
    /\ full_messages' = SecondMessages(full_messages, tool_calls_to_execute, executions)
    /\ streams' = Append(streams, DynSecondKwargs(full_messages'))
    /\ IF fails
       THEN DynFail("second_completion")
       ELSE /\ pc' = "dyn_stream"
            /\ UNCHANGED <<emitted, provider_failed>>
    /\ UNCHANGED <<tool_calls_to_execute, exec_pos, followup_read, executions,
                   dynFrame>>

\* The body of `async for chunk in stream` for one chunk.
DynStreamChunk(chunk) ==
    /\ pc = "dyn_stream"
    /\ Len(followup_read) < MaxDynChunks
    /\ followup_read' = Append(followup_read, chunk)
    /\ IF ~chunk.has_choice
       THEN DynFail("stream_chunk")
       ELSE /\ emitted' = EmitContent(emitted, chunk.content)
            /\ UNCHANGED <<pc, provider_failed>>
    /\ UNCHANGED <<full_messages, tool_calls_to_execute, exec_pos, streams,
                   executions, dynFrame>>

DynStreamFails ==
    /\ pc = "dyn_stream"
    /\ DynFail("stream_read")
    /\ UNCHANGED <<full_messages, tool_calls_to_execute, exec_pos, streams,
                   followup_read, executions, dynFrame>>

DynStreamEnds ==
    /\ pc = "dyn_stream"
    /\ pc' = "dyn_final"
    /\ UNCHANGED <<full_messages, tool_calls_to_execute, exec_pos, emitted, streams,
                   followup_read, executions, provider_failed, dynFrame>>

\* `yield StreamChunk(content="", done=True)`
DynFinalChunk ==
    /\ pc = "dyn_final"
    /\ emitted' = Append(emitted, DoneChunk)
    /\ pc' = "dyn_done"
    /\ UNCHANGED <<full_messages, tool_calls_to_execute, exec_pos, streams,
                   followup_read, executions, provider_failed, dynFrame>>

NextDynamic ==
    \/ \E first \in DynFirstOutcomes : DynFirstCompletion(first)
    \/ \E outcome \in WriteOutcomes \cup SearchOutcomes : DynExecuteNext(outcome)
    \/ \E fails \in BOOLEAN : DynSecondCompletion(fails)
    \/ \E chunk \in DynStreamChunks : DynStreamChunk(chunk)
    \/ DynStreamFails
    \/ DynStreamEnds
    \/ DynFinalChunk

SpecDynamic == InitDynamic /\ [][NextDynamic]_vars

(***************************************************************************)
(* MemoryService.clear_user_memories over Mem0Service.delete_all_memories, *)
(* entry by entry: the Memory Store lists the user's memories (or raises)  *)
(* and answers each deletion with a result, a result that holds an error   *)
(* key, or an exception; an entry may come without an id.  The call and    *)
(* what it returned are kept in last_response.                             *)
(***************************************************************************)
MaxListing == 2         \* memories the Memory Store lists for one user

\* an entry of the listing, named by what its deletion does
ListedEntries == {"no_id", "ok", "error_marker", "raise"}

ClearAnswers ==
    {[raises |-> FALSE, entries |-> l] :
        l \in UNION {[1..k -> ListedEntries] : k \in 0..MaxListing}}
    \cup {[raises |-> TRUE, entries |-> <<>>]}

\* the histories a user can have when the call is made
ClearHistories ==
    {<<>>, <<Conversation("m1", "r1")>>,
     <<Conversation("m1", "r1"), Conversation("m2", "r2")>>}

\* the loop of delete_all_memories over entries: the count so far, and
\* whether client.delete raised
RECURSIVE DeleteEachCountsErrors(_, _)
DeleteEachCountsErrors(entries, count) ==
    IF entries = <<>> THEN [raised |-> FALSE, deleted_count |-> count]
    ELSE IF Head(entries) = "raise" THEN [raised |-> TRUE, deleted_count |-> count]
    ELSE DeleteEachCountsErrors(Tail(entries),
             IF Head(entries) \in {"ok", "error_marker"} THEN count + 1 ELSE count)
RECURSIVE DeleteEach(_, _)
DeleteEach(entries, count) ==
    IF entries = <<>> THEN [raised |-> FALSE, deleted_count |-> count]
    ELSE IF Head(entries) = "raise" THEN [raised |-> TRUE, deleted_count |-> count]
    ELSE DeleteEach(Tail(entries),
             IF Head(entries) = "ok" THEN count + 1 ELSE count)

\* Mem0Service.delete_all_memories: get_all_memories gives [] when the
\* store raises; the result is the error marker or the two counts
DeleteAllMemories(present, answer) ==
    IF ~present
    THEN [error |-> "unavailable", deleted_count |-> 0, total_memories |-> 0]
    ELSE LET listed == IF answer.raises THEN <<>> ELSE answer.entries
             each == DeleteEach(listed, 0)
         IN IF each.raised
            THEN [error |-> "exception", deleted_count |-> 0, total_memories |-> 0]
            ELSE [error |-> "none", deleted_count |-> each.deleted_count,
                  total_memories |-> Len(listed)]

InitClear ==
    /\ pc = "clear"
    /\ user_id = "u1"
    /\ client_present \in BOOLEAN
    /\ full_messages = <<>>
    /\ tool_calls_to_execute = <<>>
    /\ exec_pos = 0
    /\ emitted = <<>>
    /\ streams = <<>>
    /\ primary_read = <<>>
    /\ followup_read = <<>>
    /\ executions = <<>>
    /\ provider_failed = "no"
    /\ finish_seen = None
    /\ frag_log = <<>>
    /\ cancelled = FALSE
    /\ memories \in [ChatUsers -> ClearHistories]
    /\ requests = <<>>
    /\ store_log = {}
    /\ mem0_store = EmptyStore
    /\ mem0_cache = NoCache
    /\ written_since = NotWritten
    /\ last_response = NoResponse

clearFrame == <<user_id, client_present, full_messages, tool_calls_to_execute,
                exec_pos, emitted, streams, primary_read, followup_read,
                executions, provider_failed, finish_seen, frag_log, cancelled,
                requests, store_log, mem0_store, mem0_cache, written_since>>

\* clear_user_memories(u): the local history goes first, then the store
CallClearUserMemories(u, answer) ==
    /\ pc = "clear"
    /\ memories' = [memories EXCEPT ![u] = <<>>]
    /\ last_response' = [op |-> "clear_user_memories", user_id |-> u,
                         before |-> memories, answer |-> answer,
                         local_cleared |-> TRUE,
                         mem0_result |-> DeleteAllMemories(client_present, answer)]
    /\ pc' = "cleared"
    /\ UNCHANGED clearFrame

NextClear ==
    \E u \in ChatUsers, answer \in ClearAnswers : CallClearUserMemories(u, answer)

SpecClear == InitClear /\ [][NextClear]_vars

(***************************************************************************)
(* Derived views of the state used by the properties.                      *)
(***************************************************************************)
Last(seq) == seq[Len(seq)]

\* positions of emitted that hold a chunk with done = TRUE
TerminalPositions == {k \in 1..Len(emitted) : emitted[k].done}

\* the non-terminal chunks of emitted, in order
RECURSIVE NonTerminal(_)
NonTerminal(chunks) ==
    IF chunks = <<>> THEN <<>>
    ELSE (IF Head(chunks).done THEN <<>> ELSE <<Head(chunks)>>)
         \o NonTerminal(Tail(chunks))

\* the non-null content deltas of a sequence of deltas, as content chunks
RECURSIVE Forwarded(_)
Forwarded(deltas) ==
    IF deltas = <<>> THEN <<>>
    ELSE (IF Head(deltas) = None THEN <<>>
          ELSE <<[content |-> Head(deltas), done |-> FALSE]>>)
         \o Forwarded(Tail(deltas))

FollowUpDeltas == [k \in 1..Len(followup_read) |-> followup_read[k].content]

\* indices of the slots that hold an invocation, ascending
PresentIndices == {i \in 0..(Len(tool_calls_to_execute) - 1) : SlotPresent(i)}
BatchSize == Cardinality(PresentIndices)
\* the k-th smallest index that holds an invocation
KthIndex(k) ==
    CHOOSE i \in PresentIndices : Cardinality({j \in PresentIndices : j < i}) = k - 1

MemoryStoreCalls ==
    {k \in 1..Len(executions) : executions[k].mem0 # <<>> \/ executions[k].client # <<>>}

(***************************************************************************)
(* C1. When a turn is over, the chunks it emitted contain exactly one      *)
(* chunk with done = TRUE and that chunk is the last one, whatever the     *)
(* provider did (content only, tool calls, failure, a primary stream that  *)
(* ends with or without a finish reason).                                  *)
(***************************************************************************)
C1_ExactlyOneTerminalLast ==
    pc = "done" => TerminalPositions = {Len(emitted)} /\ emitted # <<>>

(***************************************************************************)
(* C2. At most two provider streams are opened in a turn; the second is    *)
(* opened only after finish_reason = tool_calls, with tools and            *)
(* tool_choice disabled; there is at most one execution per accumulated    *)
(* invocation, and whatever the follow-up chunks carry (tool-call          *)
(* fragments, finish reasons) no execution is added once the follow-up     *)
(* stream is open.                                                         *)
(***************************************************************************)
C2_OneToolPhaseTwoStreams ==
    /\ Len(streams) <= 2
    /\ Len(executions) <= BatchSize
    /\ Len(streams) >= 1 => streams[1].tools = "memory_tools"
    /\ Len(streams) = 2 =>
          /\ finish_seen = "tool_calls"
          /\ streams[2].tools = None
          /\ streams[2].tool_choice = None
          /\ Len(executions) = BatchSize
          /\ full_messages = streams[2].messages
    /\ followup_read # <<>> => Len(streams) = 2

C2_Witness ==
    /\ pc = "done"
    /\ provider_failed = "no"
    /\ Len(streams) = 2
    /\ \E k \in 1..Len(followup_read) : followup_read[k].tool_signal

(***************************************************************************)
(* C3. When the follow-up stream is opened for a batch of N invocations,   *)
(* the context sent ends with one assistant message carrying the N         *)
(* invocations in index order followed by N tool messages, the k-th with   *)
(* the tool_call_id of the k-th invocation and the payload of the k-th     *)
(* execution, whether the executions succeeded or failed; at any time      *)
(* every tool message carries an id of the assistant message's tool_calls. *)
(***************************************************************************)
C3_BatchMessagesInOrder ==
    /\ Len(streams) = 2 =>
          LET msgs == streams[2].messages
              n == BatchSize
              a == Len(msgs) - n
          IN /\ n >= 1
             /\ Len(msgs) = 3 + n
             /\ {j \in 1..Len(msgs) : msgs[j].role = "assistant"} = {a}
             /\ Len(msgs[a].tool_calls) = n
             /\ Len(executions) = n
             /\ \A k \in 1..n :
                   LET slot == tool_calls_to_execute[KthIndex(k) + 1]
                   IN /\ msgs[a].tool_calls[k].id = slot.id
                      /\ msgs[a].tool_calls[k].function.name = slot.name
                      /\ msgs[a].tool_calls[k].function.arguments = slot.arguments
                      /\ msgs[a + k].role = "tool"
                      /\ msgs[a + k].tool_call_id = slot.id
                      /\ executions[k].tool_result.tool_call_id = slot.id
                      /\ msgs[a + k].content = JsonDumps(executions[k].tool_result.result)
    /\ \A j \in 1..Len(full_messages) :
          full_messages[j].role = "tool" =>
             \E a \in 1..(j - 1) :
                /\ full_messages[a].role = "assistant"
                /\ \A m \in (a + 1)..j : full_messages[m].role = "tool"
                /\ \E k \in 1..Len(full_messages[a].tool_calls) :
                      full_messages[a].tool_calls[k].id = full_messages[j].tool_call_id

C3_Witness ==
    /\ Len(streams) = 2
    /\ BatchSize = 2
    /\ executions[1].tool_result.success
    /\ ~executions[2].tool_result.success
    /\ executions[1].tool_result.tool_call_id # executions[2].tool_result.tool_call_id

(***************************************************************************)
(* C4. When the primary round ends with a finish reason other than         *)
(* tool_calls, nothing is executed and no Memory Store call is made, even  *)
(* if tool-call fragments were accumulated, and the turn has opened        *)
(* exactly one provider stream.                                            *)
(***************************************************************************)
C4_NoToolsWithoutToolCallsFinish ==
    (finish_seen # None /\ finish_seen # "tool_calls") =>
        /\ executions = <<>>
        /\ MemoryStoreCalls = {}
        /\ Len(streams) = 1
        /\ Len(full_messages) = 2
        /\ pc = "done"

C4_Witness ==
    /\ finish_seen = "stop"
    /\ BatchSize = 2
    /\ pc = "done"

(***************************************************************************)
(* C5. A search-by-query or list-all execution whose Memory Store call     *)
(* raised has a ToolResult with success = FALSE and an error payload; the  *)
(* failure is not reported as a successful empty result.                   *)
(***************************************************************************)
C5_SearchFailureIsFailedResult ==
    \A k \in 1..Len(executions) :
        (/\ executions[k].client # <<>>
         /\ executions[k].client[1].op = "search"
         /\ executions[k].client[1].outcome = "raise")
        => /\ ~executions[k].tool_result.success
           /\ HasErrorKey(executions[k].tool_result.result)

(***************************************************************************)
(* C6. Every execution of an invocation that names one of the five         *)
(* operations and whose arguments parse makes exactly one call to the      *)
(* Memory Store operation of that name, with the turn's user id.           *)
(***************************************************************************)
C6_OneStoreCallPerKnownInvocation ==
    \A k \in 1..Len(executions) :
        LET slot == tool_calls_to_execute[executions[k].index + 1]
        IN (slot.name \in KnownFunctions /\ ParsesToObject(slot.arguments))
           => executions[k].mem0 = <<[method |-> slot.name, user_id |-> user_id]>>

(***************************************************************************)
(* C7. The id and the function name of every accumulated invocation are    *)
(* the first non-null id and the first non-null name among the fragments   *)
(* delivered for its index.                                                *)
(***************************************************************************)
C7_FirstNonNullIdAndName ==
    \A i \in 0..MaxIndex :
        SlotPresent(i) =>
            /\ tool_calls_to_execute[i + 1].id = FirstId(FragmentsOf(frag_log, i))
            /\ tool_calls_to_execute[i + 1].name = FirstName(FragmentsOf(frag_log, i))

(***************************************************************************)
(* C8. Chunking invariance: for every index, the argument text accumulated *)
(* equals the unsplit text of the fragments delivered for that index, in   *)
(* arrival order, null and empty fragments adding nothing; an index has a  *)
(* slot exactly when a fragment was delivered for it, and the drained      *)
(* invocation carries that text.                                           *)
(***************************************************************************)
C8_ChunkingInvariance ==
    /\ \A i \in 0..MaxIndex :
          /\ SlotPresent(i) <=> FragmentsOf(frag_log, i) # <<>>
          /\ SlotPresent(i) =>
                tool_calls_to_execute[i + 1].arguments
                    = UnsplitText(FragmentsOf(frag_log, i))
    /\ pc = "drained" =>
          \A k \in 1..BatchSize :
              Last(full_messages).tool_calls[k].function.arguments
                  = UnsplitText(FragmentsOf(frag_log, KthIndex(k)))

C8_Witness ==
    /\ pc = "drained"
    /\ Len(FragmentsOf(frag_log, 0)) = 2
    /\ frag_log[1].arguments = <<"{">>
    /\ frag_log[2].arguments = <<"}">>
    /\ Last(full_messages).tool_calls[1].function.arguments = <<"{", "}">>

(***************************************************************************)
(* C9. Once the provider has failed (opening or reading either stream, or  *)
(* delivering a chunk the loop cannot read), the turn is over: the chunks  *)
(* emitted are the content forwarded before the failure followed by one    *)
(* chunk with done = TRUE and a non-empty error text, that chunk is the    *)
(* only terminal one, and no stream was opened and no tool executed after  *)
(* the failure.                                                            *)
(***************************************************************************)
C9_FailureEndsTurnWithOneError ==
    provider_failed # "no" =>
        /\ pc = "done"
        /\ emitted # <<>>
        /\ TerminalPositions = {Len(emitted)}
        /\ Last(emitted).content # ""
        /\ emitted = Forwarded(primary_read \o FollowUpDeltas) \o <<Last(emitted)>>
        /\ provider_failed = "open_primary" =>
              streams = <<>> /\ executions = <<>> /\ primary_read = <<>>
        /\ provider_failed \in {"primary_read", "primary_chunk", "primary_fragment"} =>
              Len(streams) = 1 /\ executions = <<>> /\ followup_read = <<>>
        /\ provider_failed = "open_followup" =>
              Len(streams) = 1 /\ Len(executions) = BatchSize /\ followup_read = <<>>
        /\ provider_failed \in {"followup_read", "followup_chunk"} =>
              Len(streams) = 2 /\ Len(executions) = BatchSize

C9_Witness ==
    /\ provider_failed = "followup_read"
    /\ Len(Forwarded(primary_read)) >= 1
    /\ Len(Forwarded(FollowUpDeltas)) >= 1
    /\ Len(emitted) >= 3

(***************************************************************************)
(* C10. In every state the non-terminal chunks emitted are the non-null    *)
(* content deltas of the primary chunks read so far followed by those of   *)
(* the follow-up chunks read so far, in order; no primary chunk is read    *)
(* after the one carrying the finish reason, and no follow-up chunk is     *)
(* read before every tool message of the batch is in the context.          *)
(***************************************************************************)
C10_ContentForwardedInOrder ==
    /\ NonTerminal(emitted) = Forwarded(primary_read) \o Forwarded(FollowUpDeltas)
    /\ finish_seen # None => pc # "primary"
    /\ followup_read # <<>> =>
          /\ Len(streams) = 2
          /\ Len(executions) = BatchSize
          /\ Cardinality({j \in 1..Len(full_messages) : full_messages[j].role = "tool"})
                = BatchSize
          /\ streams[2].messages = full_messages

C10_Witness ==
    /\ pc = "done"
    /\ provider_failed = "no"
    /\ primary_read = <<"a", "">>
    /\ Len(Forwarded(FollowUpDeltas)) = 2
    /\ Len(emitted) = 5

(***************************************************************************)
(* Views of the tool-execution phase.                                      *)
(***************************************************************************)
\* the slot an execution was made for
SlotOf(k) == tool_calls_to_execute[executions[k].index + 1]

\* an argument text that is not the text of a JSON object (the empty text
\* included); over the alphabet of the model only "{}" is one
UnparseableText(text) == text # <<"{", "}">>

\* the turn ended after a tool phase without a provider failure
EndedAfterTools ==
    /\ pc = "done"
    /\ provider_failed = "no"
    /\ finish_seen = "tool_calls"
    /\ tool_calls_to_execute # <<>>

\* the turn has one terminal chunk, the last, with empty content
NormalTerminalEmission ==
    /\ emitted # <<>>
    /\ Last(emitted) = DoneChunk
    /\ TerminalPositions = {Len(emitted)}

(***************************************************************************)
(* C11. An execution for a slot whose accumulated argument text does not   *)
(* parse (the empty text included) has success = FALSE and an error        *)
(* payload and makes no Mem0Service or client call; its tool message is    *)
(* appended like any other; the batch is executed to its end in index      *)
(* order, the follow-up stream is opened, and a turn that ends without a   *)
(* provider failure ends with the normal terminal chunk.                   *)
(***************************************************************************)
C11_MalformedArgumentsFailLocally ==
    /\ Len(executions) <= BatchSize
    /\ \A k \in 1..Len(executions) :
          /\ executions[k].index = KthIndex(k)
          /\ Len(full_messages) >= 3 + k
          /\ full_messages[3 + k].role = "tool"
          /\ full_messages[3 + k].tool_call_id = SlotOf(k).id
          /\ UnparseableText(SlotOf(k).arguments) =>
                /\ ~executions[k].tool_result.success
                /\ HasErrorKey(executions[k].tool_result.result)
                /\ executions[k].mem0 = <<>>
                /\ executions[k].client = <<>>
    /\ Len(streams) = 2 => Len(executions) = BatchSize
    /\ EndedAfterTools => Len(streams) = 2 /\ NormalTerminalEmission

C11_Witness ==
    /\ EndedAfterTools
    /\ BatchSize = 2
    /\ SlotOf(1).arguments = <<>>
    /\ ~executions[1].tool_result.success
    /\ executions[2].tool_result.success
    /\ executions[2].client # <<>>
    /\ Len(emitted) >= 2

(***************************************************************************)
(* C12. For an execution of add_memory, update_memory or delete_memory     *)
(* whose arguments parse, success is FALSE exactly when the Memory Store   *)
(* call it made raised or returned a result with an error marker, and TRUE *)
(* otherwise; its tool message is appended either way, and a turn that     *)
(* ends without a provider failure ends with the normal terminal chunk.    *)
(***************************************************************************)
\* the Mem0Service call of execution k failed: the client raised, the result
\* carries an error key, or Mem0Service answered with its own error result
StoreCallFailed(k) ==
    /\ executions[k].mem0 # <<>>
    /\ \/ executions[k].client = <<>>
       \/ executions[k].client[1].outcome \in {"raise", "error_marker"}

WriteFunctions == {"add_memory", "update_memory", "delete_memory"}

C12_WriteSuccessFollowsStoreOutcome ==
    /\ \A k \in 1..Len(executions) :
          (SlotOf(k).name \in WriteFunctions /\ ~UnparseableText(SlotOf(k).arguments))
          => /\ executions[k].tool_result.success <=> ~StoreCallFailed(k)
             /\ full_messages[3 + k].role = "tool"
             /\ full_messages[3 + k].content = JsonDumps(executions[k].tool_result.result)
    /\ EndedAfterTools => NormalTerminalEmission

(***************************************************************************)
(* C13 as claimed. Every execution for a function that is named and is     *)
(* none of the five operations has success = FALSE and the error payload   *)
(* that names the function, makes no Memory Store call and has its tool    *)
(* message appended; the batch is executed to its end and the follow-up    *)
(* stream is opened.                                                       *)
(***************************************************************************)
C13_UnknownFunctionNamedInError ==
    /\ \A k \in 1..Len(executions) :
          (SlotOf(k).name \notin KnownFunctions /\ SlotOf(k).name # None) =>
             /\ ~executions[k].tool_result.success
             /\ executions[k].tool_result.result = "error_unknown_function"
             /\ executions[k].mem0 = <<>>
             /\ executions[k].client = <<>>
             /\ full_messages[3 + k].role = "tool"
    /\ Len(streams) = 2 => Len(executions) = BatchSize
    /\ EndedAfterTools => Len(streams) = 2

(***************************************************************************)
(* C13 as amended. Every execution for a function name that is none of the *)
(* five operations has success = FALSE and an error payload, makes no      *)
(* Memory Store call and has its tool message appended; the payload names  *)
(* the function when the argument text parses and reports the parse error  *)
(* when it does not (the arguments are parsed before the name is looked    *)
(* at); the batch is executed to its end and the follow-up stream is       *)
(* opened.                                                                 *)
(***************************************************************************)
C13_UnknownFunctionFailsLocally ==
    /\ \A k \in 1..Len(executions) :
          SlotOf(k).name \notin KnownFunctions =>
             /\ ~executions[k].tool_result.success
             /\ HasErrorKey(executions[k].tool_result.result)
             /\ executions[k].tool_result.result =
                    (IF UnparseableText(SlotOf(k).arguments)
                     THEN "error_arguments" ELSE "error_unknown_function")
             /\ executions[k].mem0 = <<>>
             /\ executions[k].client = <<>>
             /\ full_messages[3 + k].role = "tool"
             /\ full_messages[3 + k].content = JsonDumps(executions[k].tool_result.result)
    /\ Len(streams) = 2 => Len(executions) = BatchSize
    /\ EndedAfterTools => Len(streams) = 2

C13_Witness ==
    /\ EndedAfterTools
    /\ BatchSize = 2
    /\ SlotOf(1).name = "other_fn"
    /\ executions[1].tool_result.result = "error_unknown_function"
    /\ executions[2].client # <<>>
    /\ Len(streams) = 2

(***************************************************************************)
(* C14. Every step executes at most one tool.  A step that executes the    *)
(* (k+1)-th tool starts in a state whose context holds the assistant       *)
(* message with the whole batch followed by the tool messages of the k     *)
(* tools executed before, executes the invocation with the (k+1)-th        *)
(* smallest index, and appends its tool message.                           *)
(***************************************************************************)
C14_ExecutionStep ==
    /\ Len(executions') <= Len(executions) + 1
    /\ executions' # executions =>
          LET k == Len(executions)
          IN /\ Len(executions') = k + 1
             /\ SubSeq(executions', 1, k) = executions
             /\ k < BatchSize
             /\ Len(full_messages) = 3 + k
             /\ full_messages[3].role = "assistant"
             /\ Len(full_messages[3].tool_calls) = BatchSize
             /\ \A j \in 1..k :
                   /\ full_messages[3 + j].role = "tool"
                   /\ full_messages[3 + j].tool_call_id = SlotOf(j).id
             /\ executions'[k + 1].index = KthIndex(k + 1)
             /\ Len(full_messages') = 4 + k
             /\ SubSeq(full_messages', 1, 3 + k) = full_messages
             /\ full_messages'[4 + k].role = "tool"
             /\ full_messages'[4 + k].tool_call_id
                    = tool_calls_to_execute[KthIndex(k + 1) + 1].id

C14_SequentialExecutionInOrder == [][C14_ExecutionStep]_vars

C14_Witness ==
    /\ pc = "exec"
    /\ BatchSize = 2
    /\ Len(executions) = 2
    /\ executions[1].index = 0
    /\ executions[2].index = 1
    /\ Len(full_messages) = 5

(***************************************************************************)
(* C15. No invocation is executed twice; every execution is for an         *)
(* invocation of the batch and makes at most one Mem0Service call and at   *)
(* most one client call, also when that call fails; once the follow-up     *)
(* stream is open every invocation of the batch has been executed exactly  *)
(* once; the primary round is never run again (only the first stream is    *)
(* opened with tools).                                                     *)
(***************************************************************************)
C15_OneAttemptPerInvocation ==
    /\ \A k \in 1..Len(executions) :
          /\ executions[k].index \in PresentIndices
          /\ Len(executions[k].mem0) <= 1
          /\ Len(executions[k].client) <= 1
          /\ \A j \in 1..Len(executions) :
                executions[j].index = executions[k].index => j = k
    /\ Len(streams) = 2 =>
          {executions[k].index : k \in 1..Len(executions)} = PresentIndices
    /\ \A j \in 2..Len(streams) : streams[j].tools = None
    /\ Len(streams) <= 2

C15_Witness ==
    /\ pc = "done"
    /\ Len(streams) = 2
    /\ BatchSize = 2
    /\ executions[1].client # <<>>
    /\ executions[1].client[1].op = "add"
    /\ executions[1].client[1].outcome = "raise"
    /\ ~executions[1].tool_result.success

(***************************************************************************)
(* C16. The response generate_response produces for a turn that has ended  *)
(* (with content only, after tools, after a provider failure, with         *)
(* add_conversation raising or not) is a sequence of JSON events followed  *)
(* by exactly one sentinel, the last item; exactly one JSON event has      *)
(* done = TRUE and it is the last JSON event.                              *)
(***************************************************************************)
WellFormedResponse(events) ==
    /\ Len(events) >= 2
    /\ {i \in 1..Len(events) : events[i].kind = "DONE"} = {Len(events)}
    /\ {i \in 1..Len(events) : events[i].done} = {Len(events) - 1}

C16_ResponseEndsWithDoneAndSentinel ==
    pc = "done" =>
        \A add_raises \in BOOLEAN :
            WellFormedResponse(GenerateResponse(RouteStart, emitted, add_raises).events)

(***************************************************************************)
(* C17. The step in which the client disconnects and every step after it   *)
(* open no provider stream, read no chunk of either stream, execute no     *)
(* tool and emit nothing; a turn once cancelled stays cancelled.           *)
(***************************************************************************)
C17_CancelStep ==
    /\ cancelled => cancelled'
    /\ cancelled' =>
          /\ streams' = streams
          /\ primary_read' = primary_read
          /\ followup_read' = followup_read
          /\ executions' = executions
          /\ emitted' = emitted

C17_NothingStartsAfterCancel == [][C17_CancelStep]_vars

C17_Witness ==
    /\ cancelled
    /\ finish_seen = "tool_calls"
    /\ BatchSize = 2
    /\ executions = <<>>
    /\ Len(streams) = 1

(***************************************************************************)
(* C18. Two /chat turns of the same user are never in flight together:     *)
(* they are serialized or the later one is rejected, so no turn builds its *)
(* context from the history while another turn of that user has not ended. *)
(***************************************************************************)
C18_SameUserTurnsSerialized ==
    \A r1, r2 \in 1..Len(requests) :
        (InFlight(r1) /\ InFlight(r2) /\ requests[r1].user_id = requests[r2].user_id)
            => r1 = r2

(***************************************************************************)
(* C19. Under any interleaving of turns of different users, the history of *)
(* a user holds only that user's conversations, the context of a turn      *)
(* holds only messages of its own user, every Memory Store call of a turn  *)
(* and the id handed to its orchestrator is the turn's user id, and a step *)
(* changes the history of a user only as a step of one of that user's      *)
(* turns, leaving the context of every turn as it was built.               *)
(***************************************************************************)
\* every delta of a collected response answers user u
AnswersUser(response, u) ==
    \A k \in 1..Len(response) : response[k] = ReplyTo(u)

OwnMessage(m, u) ==
    CASE m.role = "user" -> m.content[1] = u
      [] m.role = "assistant" -> AnswersUser(m.content, u)
      [] OTHER -> m.content[2] = u

C19_Isolated ==
    /\ \A u \in ChatUsers : \A k \in 1..Len(memories[u]) :
          /\ memories[u][k].user_message[1] = u
          /\ AnswersUser(memories[u][k].assistant_response, u)
    /\ \A r \in 1..Len(requests) :
          /\ requests[r].stream_user_id = requests[r].user_id
          /\ \A k \in 1..Len(requests[r].messages) :
                OwnMessage(requests[r].messages[k], requests[r].user_id)
    /\ \A e \in store_log :
          /\ e.request \in 1..Len(requests)
          /\ e.user_id = requests[e.request].user_id

C19_FrameStep ==
    /\ \A r \in 1..Len(requests) : requests'[r].messages = requests[r].messages
    /\ \A b \in ChatUsers :
          memories'[b] # memories[b] =>
              \E r \in 1..Len(requests) :
                  /\ requests[r].user_id = b
                  /\ requests'[r] # requests[r]
                  /\ \A q \in 1..Len(requests) : q # r => requests'[q] = requests[q]

ReadFunctions == {"search_memories", "get_all_memories"}

C20_AbsentClientDegrades ==
    ~client_present =>
        /\ \A k \in 1..Len(executions) :
              /\ executions[k].client = <<>>
              /\ executions[k].mem0 # <<>> =>
                    /\ SlotOf(k).name \in ReadFunctions =>
                          /\ executions[k].tool_result.result = "no_memories"
                          /\ executions[k].tool_result.success
                    /\ SlotOf(k).name \in {"add_memory", "delete_memory"} =>
                          /\ executions[k].tool_result.result = "error_unavailable"
                          /\ ~executions[k].tool_result.success
        /\ \A listing \in SearchOutcomes, deletion \in WriteOutcomes :
              Mem0DeleteAllMemories(client_present, user_id, listing, deletion)
                  = [result |-> "error_unavailable", client |-> NoCall]
        /\ EndedAfterTools => Len(streams) = 2 /\ NormalTerminalEmission

C20_Witness ==
    /\ ~client_present
    /\ EndedAfterTools
    /\ BatchSize = 2
    /\ \E k \in 1..2 :
          /\ SlotOf(k).name \in ReadFunctions
          /\ executions[k].mem0 # <<>>
          /\ executions[k].tool_result.success
    /\ \E k \in 1..2 :
          /\ SlotOf(k).name \in {"add_memory", "delete_memory"}
          /\ executions[k].mem0 # <<>>
          /\ ~executions[k].tool_result.success
    /\ NormalTerminalEmission

(***************************************************************************)
(* C21. POST /chat/simple with a provider that answers normally returns    *)
(* status 200 with user_id, message, response and timestamp, and the       *)
(* exchange is the last entry of the user's conversation history.          *)
(***************************************************************************)
C21_SimpleChatSucceedsAndRecords ==
    last_response.op = "chat_simple" =>
        /\ last_response.status = 200
        /\ last_response.timestamp
        /\ memories[last_response.user_id] # <<>>
        /\ Last(memories[last_response.user_id])
              = Conversation(last_response.message, last_response.response)

(***************************************************************************)
(* C22. DELETE /chat/history/{user_id} returns status 200 and leaves the   *)
(* user's history empty, so that a GET of it has count 0; the history of   *)
(* every other user is as it was.                                          *)
(***************************************************************************)
C22_ClearStep ==
    last_response'.op = "clear_chat_history" =>
        /\ last_response'.status = 200
        /\ memories'[last_response'.user_id] = <<>>
        /\ Len(GetConversationHistory(memories', last_response'.user_id, 0)) = 0
        /\ \A b \in ChatUsers \ {last_response'.user_id} : memories'[b] = memories[b]

C22_ClearEmptiesOnlyThatHistory == [][C22_ClearStep]_vars

(***************************************************************************)
(* C23. GET /chat/history/{user_id}?limit=n returns, for every n >= 0, at  *)
(* most n conversations, the most recent ones of the stored history in     *)
(* chronological order, with count their number; a user without history    *)
(* gets the empty list; the stored histories are not changed.              *)
(***************************************************************************)
\* the last n elements of seq, for n >= 0
MostRecent(seq, n) ==
    [k \in 1..(IF Len(seq) > n THEN n ELSE Len(seq)) |->
        seq[k + (IF Len(seq) > n THEN Len(seq) - n ELSE 0)]]

C23_HistoryStep ==
    last_response'.op = "get_chat_history" =>
        /\ last_response'.status = 200
        /\ Len(last_response'.history) <= last_response'.limit
        /\ last_response'.history
              = MostRecent(memories[last_response'.user_id], last_response'.limit)
        /\ last_response'.count = Len(last_response'.history)
        /\ memories' = memories

C23_HistoryIsMostRecentLimit == [][C23_HistoryStep]_vars

(***************************************************************************)
(* C24. Every history holds at most max_memories_per_user entries, which   *)
(* are consecutive exchanges of its user ending with the most recent one;  *)
(* a step that changes the histories changes one of them, placing the new  *)
(* exchange last and dropping the oldest entry when the history was full.  *)
(***************************************************************************)
C24_Capped ==
    \A u \in ChatUsers :
        /\ Len(memories[u]) <= max_memories_per_user
        /\ \A k \in 1..Len(memories[u]) :
              memories[u][k].user_message
                  = <<u, NextNumber(memories, u) - 1 - Len(memories[u]) + k>>

C24_AddStep ==
    /\ memories' # memories => last_response'.op = "add_conversation"
    /\ last_response'.op = "add_conversation" =>
          LET u == last_response'.user_id
          IN /\ \A b \in ChatUsers \ {u} : memories'[b] = memories[b]
             /\ memories'[u] # <<>>
             /\ Last(memories'[u]).user_message = last_response'.message
             /\ memories'[u] =
                   Append(IF Len(memories[u]) < max_memories_per_user
                          THEN memories[u] ELSE Tail(memories[u]),
                          Last(memories'[u]))

C24_HistoryCappedAtFifty == [](C24_Capped) /\ [][C24_AddStep]_vars

C24_Witness ==
    /\ Len(memories["u1"]) = max_memories_per_user
    /\ memories["u1"][1].user_message = <<"u1", 2>>
    /\ Last(memories["u1"]).user_message = <<"u1", max_memories_per_user + 1>>
    /\ Len(memories["u2"]) = 1
    /\ last_response.op = "add_conversation"
    /\ last_response.user_id = "u1"

(***************************************************************************)
(* C29. get_all_memories never serves a list cached before a write: when a *)
(* write for the user made through MemoryService (add_important_fact,      *)
(* delete_memory, clear_user_memories) completed since the list was        *)
(* cached, the call returns the entries the Memory Store holds now; and a  *)
(* step removes the cache entry of no user but the one it was called for.  *)
(***************************************************************************)
C29_Fresh ==
    (last_response.op = "get_all_memories" /\ last_response.after_write)
        => last_response.result = last_response.current

C29_InvalidateStep ==
    \A b \in DOMAIN mem0_cache :
        b \notin DOMAIN mem0_cache' => last_response'.user_id = b

C29_NoStaleListAfterWrite == [](C29_Fresh) /\ [][C29_InvalidateStep]_vars

(***************************************************************************)
(* C30. get_all_memories caches only a successful fetch: after a call      *)
(* whose Memory Store fetch failed the user has no cache entry, so the     *)
(* next call fetches again.                                                *)
(***************************************************************************)
C30_FailedFetchNotCached ==
    (last_response.op = "get_all_memories" /\ last_response.fetch = "raise")
        => ~Cached(mem0_cache, last_response.user_id)

(***************************************************************************)
(* C25. The message list of the primary round is the system prompt, then   *)
(* the retrieved-memory note exactly when the memory search returned a     *)
(* result, then the at most max_recent_messages most recent stored         *)
(* exchanges as user/assistant pairs, oldest first, then the new user      *)
(* message; the assistant tool-call message and the tool messages are in   *)
(* the orchestrator's list only, after those, and never in the caller's    *)
(* list or in a stored history.                                            *)
(***************************************************************************)
\* the exchanges of a history as alternating user and assistant messages
Exchanges(history) ==
    [k \in 1..(2 * Len(history)) |->
        IF k % 2 = 1
        THEN ChatMessage("user", history[(k + 1) \div 2].user_message)
        ELSE ChatMessage("assistant", history[k \div 2].assistant_response)]

ExpectedPrimaryMessages(turn) ==
    <<SystemMessage>>
    \o (IF turn.found = "memories"
        THEN <<ChatMessage("system", <<"Relevant memories", turn.user_id>>)>>
        ELSE <<>>)
    \o Exchanges(MostRecent(memories[turn.user_id], max_recent_messages))
    \o <<ChatMessage("user", turn.message)>>

ConversationRoles == {"system", "user", "assistant"}

C25_PrimaryContextShape ==
    /\ pc \in {"primary", "followup"} =>
          LET turn == requests[1]
              sent == streams[1].messages
          IN /\ sent = ExpectedPrimaryMessages(turn)
             /\ turn.messages = Tail(sent)
             /\ \A k \in 1..Len(turn.messages) :
                   /\ turn.messages[k].role \in ConversationRoles
                   /\ DOMAIN turn.messages[k] = {"role", "content"}
             /\ pc = "primary" => full_messages = sent
             /\ pc = "followup" =>
                   /\ Len(full_messages) = Len(sent) + 2
                   /\ SubSeq(full_messages, 1, Len(sent)) = sent
                   /\ full_messages[Len(sent) + 1].role = "assistant"
                   /\ full_messages[Len(sent) + 1].tool_calls # <<>>
                   /\ full_messages[Len(sent) + 2].role = "tool"
    /\ \A u \in ChatUsers : \A k \in 1..Len(memories[u]) :
          /\ DOMAIN memories[u][k] = {"user_message", "assistant_response"}
          /\ memories[u][k].user_message[1] = u
          /\ memories[u][k].assistant_response = <<ReplyTo(u)>>

C25_Witness ==
    /\ pc = "followup"
    /\ Len(memories[user_id]) > max_recent_messages
    /\ requests[1].found = "memories"
    /\ Len(streams[1].messages) = 3 + 2 * max_recent_messages
    /\ full_messages[Len(full_messages)].role = "tool"

(***************************************************************************)
(* C26. Once the primary stream has reported a finish reason, the tool     *)
(* phase (the assistant tool-call message appended, executions, the        *)
(* follow-up stream) has been entered exactly when that reason is          *)
(* tool_calls; any other reason leads straight to the terminal chunk; no   *)
(* primary chunk is read after the first finish reason; and a turn that    *)
(* ends without a provider failure ends with the terminal chunk of empty   *)
(* content.                                                                *)
(***************************************************************************)
\* the assistant tool-call message was appended to the context
ToolPhaseEntered == Len(full_messages) > 2

C26_PhaseFollowsFinishReason ==
    /\ finish_seen = None => ~ToolPhaseEntered
    /\ finish_seen # None =>
          /\ pc # "primary"
          /\ ToolPhaseEntered <=> finish_seen = "tool_calls"
    /\ (finish_seen # None /\ finish_seen # "tool_calls") =>
          /\ pc = "done"
          /\ Len(streams) = 1
          /\ NormalTerminalEmission
    /\ (pc = "done" /\ provider_failed = "no") => NormalTerminalEmission

\* the same with the two cases left out in which the code departs from it: a
\* primary stream that ends without a finish reason, and finish_reason
\* tool_calls with no accumulated slot
C26_ExceptKnownDepartures ==
    /\ finish_seen = None => ~ToolPhaseEntered
    /\ finish_seen # None =>
          /\ pc # "primary"
          /\ ToolPhaseEntered <=>
                (finish_seen = "tool_calls" /\ tool_calls_to_execute # <<>>)
    /\ (finish_seen # None /\ finish_seen # "tool_calls") =>
          /\ pc = "done"
          /\ Len(streams) = 1
          /\ NormalTerminalEmission
    /\ (pc = "done" /\ provider_failed = "no" /\ finish_seen # None)
          => NormalTerminalEmission

(***************************************************************************)
(* C27. For fragments of several indices in any order, the argument text   *)
(* of an index is the unsplit text of its own fragments in arrival order;  *)
(* the slot list has length (highest index seen + 1) and an index never    *)
(* seen is an empty placeholder; the fragment carried by the finishing     *)
(* chunk is in the drained invocations; the invocations and the tool       *)
(* messages follow the seen indices in ascending order, none for a         *)
(* placeholder.                                                            *)
(***************************************************************************)
\* the indices for which a fragment was delivered
SeenIndices == {frag_log[k].index : k \in 1..Len(frag_log)} \ {NoIndex}

\* the position of the assistant tool-call message in the context
AssistantAt == Len(<<SystemMessage, UserMessage>>) + 1

RECURSIVE TextOf(_)
TextOf(chunks) ==
    IF chunks = <<>> THEN <<>>
    ELSE ContentText(Head(chunks).content) \o TextOf(Tail(chunks))

C28_OneEntryOfNonTerminalText ==
    LET history == memories[requests[1].user_id]
        text == TextOf(NonTerminal(emitted))
    IN /\ Len(history) <= 1
       /\ Len(history) = Len(requests[1].rs.stored)
       /\ Len(history) = 1 <=> /\ TerminalPositions # {}
                               /\ \E k \in 1..Len(text) : text[k] # " "
       /\ Len(history) = 1 =>
             /\ history[1] = Conversation(requests[1].message, text)
             /\ \A k \in 1..Len(text) : text[k] # ErrorText
       /\ \A u \in ChatUsers \ {requests[1].user_id} : memories[u] = <<>>

C28_Witness ==
    /\ requests[1].rs.finished
    /\ emitted = <<ContentChunk("a"), ContentChunk(" "), ErrorChunk>>
    /\ memories["u1"] = <<Conversation("user_message", <<"a", " ">>)>>

(***************************************************************************)
(* C31. add_conversation appends the exchange to the history and schedules *)
(* exactly one persistence job in the same call, which returns with the    *)
(* job still pending; when the job runs, whether the Memory Store answers, *)
(* reports an error or raises, the history entry stays in place and the    *)
(* events of the response are untouched.                                   *)
(***************************************************************************)
\* add_conversation was called and returned
C31_AddReturned ==
    /\ Len(requests[1].rs.stored) = 1
    /\ \A k \in 1..Len(requests[1].rs.events) :
          requests[1].rs.events[k].content # RouteErrorText

C31_OneJobEntryKept ==
    /\ Len(requests[1].jobs) = IF C31_AddReturned THEN 1 ELSE 0
    /\ requests[1].jobs # <<>> => Len(memories[requests[1].user_id]) = 1

C31_JobStep ==
    /\ Len(requests'[1].jobs) > Len(requests[1].jobs) =>
          /\ requests'[1].jobs = Append(requests[1].jobs, "pending")
          /\ memories'[requests[1].user_id]
                = Append(memories[requests[1].user_id],
                         Conversation(requests[1].message,
                                      requests[1].rs.full_response))
          /\ store_log' = store_log
    /\ (Len(requests'[1].jobs) = Len(requests[1].jobs)
        /\ requests'[1].jobs # requests[1].jobs) =>
          /\ memories' = memories
          /\ emitted' = emitted
          /\ requests'[1].rs = requests[1].rs

C31_JobDetachedFromTurn == [](C31_OneJobEntryKept) /\ [][C31_JobStep]_vars

C31_Witness ==
    /\ requests[1].jobs = <<"failed">>
    /\ requests[1].rs.finished
    /\ Len(memories["u1"]) = 1
    /\ \A k \in 1..Len(requests[1].rs.events) :
          requests[1].rs.events[k].content # RouteErrorText
    /\ store_log # {}

(***************************************************************************)
(* C32. A turn that is waiting for a Memory Store call does not wait for   *)
(* ever: the call ends, as a result or as a failed result after an upper   *)
(* bound, and the turn reaches its terminal emission.                      *)
(***************************************************************************)
C32_StoreCallBounded == (pc = "store_call") ~> (TerminalPositions # {})

(***************************************************************************)
(* C33. With provider streams of at most MaxChunks chunks and Memory Store *)
(* calls that return, every turn stops after a bounded number of steps:    *)
(* a turn that is not over can always take a step, each step lowers a      *)
(* bound on the steps that are left, and no step (provider read, tool      *)
(* execution, emission) starts from a state in which the terminal chunk    *)
(* has been emitted.                                                       *)
(***************************************************************************)
TurnOver == pc \in {"done", "cancelled"}

\* slots still to execute, from exec_pos on
SlotsLeft ==
    Cardinality({i \in 1..Len(tool_calls_to_execute) :
                    i >= exec_pos /\ tool_calls_to_execute[i].present})

\* steps of a whole follow-up round: open, read every chunk, end
FollowUpSteps == MaxChunks + 2

\* an upper bound on the steps the turn can still take
StepsLeft ==
    CASE pc = "start" -> 1 + (MaxChunks + 1) + (MaxIndex + 1) + FollowUpSteps
      [] pc = "primary" -> (MaxChunks - Len(primary_read)) + 1 + (MaxIndex + 1)
                              + FollowUpSteps
      [] pc = "exec" -> SlotsLeft + FollowUpSteps
      [] pc = "followup" -> (MaxChunks - Len(followup_read)) + 1
      [] OTHER -> 0

C33_Step ==
    /\ StepsLeft' < StepsLeft
    /\ StepsLeft' >= 0
    /\ TerminalPositions = {}
    /\ ~TurnOver

\* a turn that is not over can take a step other than the client's leaving
C33_NeverStuck == ~TurnOver => ENABLED (Next /\ ~cancelled')

\* Under the fairness of SpecFair these give C33_Eventually: a step is
\* always possible until the turn is over and each step lowers StepsLeft.
C33_EveryTurnTerminates == [](C33_NeverStuck) /\ [][C33_Step]_vars

C33_Eventually == <>TurnOver

C33_Witness ==
    /\ pc = "done"
    /\ Len(streams) = 2
    /\ Len(executions) = 2
    /\ Len(followup_read) = MaxChunks
    /\ Len(emitted) >= 2
    /\ TerminalPositions = {Len(emitted)}

(***************************************************************************)
(* C34. For every positive limit search_memories returns at most limit     *)
(* entries, the first entries of the Memory Store's list in its order; it  *)
(* never raises, and returns the empty list when the store raises or the   *)
(* client is absent.                                                       *)
(***************************************************************************)
\* seq is the list of the first Len(seq) entries of whole
IsPrefix(seq, whole) ==
    /\ Len(seq) <= Len(whole)
    /\ \A k \in 1..Len(seq) : seq[k] = whole[k]

C34_SearchReturnsFirstLimit ==
    (last_response.op = "search_memories" /\ last_response.limit > 0) =>
        /\ ~last_response.raised
        /\ Len(last_response.memories) <= last_response.limit
        /\ IsPrefix(last_response.memories, last_response.answer.memories)
        /\ (client_present /\ ~last_response.answer.raises) =>
              \/ Len(last_response.memories) = last_response.limit
              \/ last_response.memories = last_response.answer.memories
        /\ (~client_present \/ last_response.answer.raises) =>
              last_response.memories = <<>>

C34_Witness ==
    /\ last_response.op = "search_memories"
    /\ client_present
    /\ last_response.limit = 2
    /\ last_response.answer.memories = <<3, 1, 2>>
    /\ last_response.memories = <<3, 1>>

(***************************************************************************)
(* C35. Whenever the second completion of DynamicMemoryService is          *)
(* requested, its messages hold, for every tool call of the assistant      *)
(* message, exactly one tool message with the id of that call, in the      *)
(* order of the calls, also for calls of a function other than             *)
(* manage_memory.                                                          *)
(***************************************************************************)
\* the tool messages among msgs, in order
RECURSIVE ToolMessagesOf(_)
ToolMessagesOf(msgs) ==
    IF msgs = <<>> THEN <<>>
    ELSE (IF Head(msgs).role = "tool" THEN <<Head(msgs)>> ELSE <<>>)
         \o ToolMessagesOf(Tail(msgs))

C35_AnsweredInOrder(msgs, calls) ==
    LET answers == ToolMessagesOf(msgs)
    IN /\ Len(answers) = Len(calls)
       /\ \A k \in 1..Len(calls) : answers[k].tool_call_id = calls[k].id

C35_EveryToolCallAnswered ==
    Len(streams) = 2 =>
        C35_AnsweredInOrder(streams[2].messages, tool_calls_to_execute)

\* the same for turns whose tool calls are all manage_memory calls
C35_ManageMemoryCallsAnswered ==
    (Len(streams) = 2
     /\ \A k \in 1..Len(tool_calls_to_execute) :
           tool_calls_to_execute[k].name = "manage_memory") =>
        C35_AnsweredInOrder(streams[2].messages, tool_calls_to_execute)

(***************************************************************************)
(* C36. A turn of DynamicMemoryService makes at most two provider calls,   *)
(* the second without tools; it executes the manage_memory calls in order, *)
(* each at most once; and when it is over, on every path, it has emitted   *)
(* exactly one chunk with done = TRUE, the last one, and none before.      *)
(***************************************************************************)
C36_AtMostTwoCallsOneTerminal ==
    /\ Len(streams) <= 2
    /\ Len(streams) >= 1 => streams[1].tools = "memory_tool"
    /\ Len(streams) = 2 =>
          /\ streams[2].tools = "unset"
          /\ streams[2].tool_choice = "unset"
    /\ \A k \in 1..Len(executions) :
          /\ executions[k].index + 1 < exec_pos
          /\ tool_calls_to_execute[executions[k].index + 1].name = "manage_memory"
          /\ Len(executions[k].client) <= 1
          /\ \A j \in 1..(k - 1) : executions[j].index < executions[k].index
    /\ pc = "dyn_done" => TerminalPositions = {Len(emitted)}
    /\ pc # "dyn_done" => TerminalPositions = {}

C36_Witness ==
    /\ pc = "dyn_done"
    /\ provider_failed = "arguments"
    /\ Len(tool_calls_to_execute) = 2
    /\ Len(executions) = 1
    /\ executions[1].client # NoCall
    /\ Len(streams) = 1
    /\ emitted = <<ErrorChunk>>

(***************************************************************************)
(* C37. clear_user_memories(u) leaves u without local history whatever the *)
(* Memory Store does and leaves the history of every other user as it was; *)
(* the deleted_count that delete_all_memories reports is the number of     *)
(* listed entries whose deletion returned without an error marker and is   *)
(* never more than total_memories.                                         *)
(***************************************************************************)
\* listed entries whose deletion was asked for and returned no error marker
DeletedCleanly(entries) == Cardinality({k \in 1..Len(entries) : entries[k] = "ok"})

C37_ClearsLocalCountsDeletions ==
    last_response.op = "clear_user_memories" =>
        /\ memories[last_response.user_id] = <<>>
        /\ \A v \in ChatUsers \ {last_response.user_id} :
              memories[v] = last_response.before[v]
        /\ last_response.mem0_result.deleted_count
              <= last_response.mem0_result.total_memories
        /\ last_response.mem0_result.error = "none" =>
              /\ last_response.mem0_result.total_memories
                    = Len(last_response.answer.entries)
              /\ last_response.mem0_result.deleted_count
                    = DeletedCleanly(last_response.answer.entries)

C37_Witness ==
    /\ last_response.op = "clear_user_memories"
    /\ last_response.user_id = "u1"
    /\ Len(last_response.before["u1"]) = 2
    /\ memories["u1"] = <<>>
    /\ Len(memories["u2"]) = 1
    /\ client_present
    /\ last_response.answer.entries = <<"error_marker", "ok">>
    /\ last_response.mem0_result.deleted_count = 1
    /\ last_response.mem0_result.total_memories = 2

====
